---- MODULE Spec2Model ----
(***************************************************************************)
(* StrainGR variant calling (strainge/variant_caller.py): the Allele       *)
(* bit flags, the per-scaffold call data, the two read passes of           *)
(* VariantCaller.process() and the three post-processing passes.           *)
(*                                                                         *)
(* Positions are 0-based as in the source.  The numpy arrays are functions *)
(* over 0..length-1; the counters are uint32 in the source and unbounded   *)
(* here (no run of the model comes near 2^32 updates of one counter).      *)
(* Floating point values are kept exact: a mean is a pair <<sum, length>>, *)
(* a median is stored doubled, min_qual_frac is a pair <<num, den>>.       *)
(***************************************************************************)
EXTENDS Integers, Sequences, FiniteSets, TLC

(***************************************************************************)
(* Bounds of the model.                                                    *)
(***************************************************************************)
\* Length of scaffold "s1" and of scaffold "s2".
LenS1 == 3
LenS2 == 2
\* Alignment records consumed by the abundance pass, pileup entries consumed
\* by the pileup pass.
MaxRecords == 1
MaxPileup == 2

(***************************************************************************)
(* class Allele(IntFlag)                                                   *)
(***************************************************************************)
N == 0
A == 1
C == 2
G == 4
T == 8
INS == 16
DEL == 32

\* Allele.__members__: name -> value.
Allele_members == [N |-> N, A |-> A, C |-> C, G |-> G, T |-> T,
                   INS |-> INS, DEL |-> DEL]

\* ALLELE_MASKS: the bit value of every allele but N, in definition order.
ALLELE_MASKS == <<A, C, G, T, INS, DEL>>

\* ALLELE_INDEX: allele -> column of the `alleles` array (0-based).
ALLELE_INDEX == [a \in {A, C, G, T, INS, DEL} |->
                   CHOOSE i \in 0..5 : ALLELE_MASKS[i + 1] = a]

AlleleIx == 0..5

\* All combinations of allele bits.
AlleleMaskValues == 0..63

\* x & a # 0 for a single-bit value a.
HasBit(x, a) == (x \div a) % 2 = 1

\* (mutant) a character that names no allele is read as A
from_str_lenient(base) ==
    IF base \notin DOMAIN Allele_members THEN A ELSE Allele_members[base]

\* Allele.from_str
from_str(base) ==
    IF base \notin DOMAIN Allele_members THEN N ELSE Allele_members[base]

\* (mutant) G is left as it is
rc_without_G(allele) ==
    IF allele = A THEN T
    ELSE IF allele = C THEN G
    ELSE IF allele = T THEN A
    ELSE allele

\* Allele.rc
rc(allele) ==
    IF allele = A THEN T
    ELSE IF allele = C THEN G
    ELSE IF allele = G THEN C
    ELSE IF allele = T THEN A
    ELSE allele

(***************************************************************************)
(* numpy helpers                                                           *)
(***************************************************************************)
\* sum of f over 0..n-1
RECURSIVE SumTo(_, _)
SumTo(f, n) == IF n = 0 THEN 0 ELSE f[n - 1] + SumTo(f, n - 1)

\* numpy.sum over the last axis of a row of six columns
RowSum(row) == SumTo(row, 6)

\* An integer index into an array of the given length: numpy counts a
\* negative index from the end and raises IndexError outside -length..length-1.
IndexOk(pos, length) == pos >= -length /\ pos < length
NumpyIndex(pos, length) == IF pos < 0 THEN pos + length ELSE pos

\* k-th smallest element (k = 1..n) of f over 0..n-1
KthSmallest(f, n, k) ==
    CHOOSE v \in {f[i] : i \in 0..(n - 1)} :
        /\ Cardinality({i \in 0..(n - 1) : f[i] < v}) < k
        /\ Cardinality({i \in 0..(n - 1) : f[i] <= v}) >= k

\* Twice numpy.median(f): the middle element, or the mean of the two middle
\* elements of an array of even length.
Median2(f, n) ==
    IF n % 2 = 1 THEN 2 * KthSmallest(f, n, (n + 1) \div 2)
    ELSE KthSmallest(f, n, n \div 2) + KthSmallest(f, n, n \div 2 + 1)

(***************************************************************************)
(* Coverage cutoff and minimum gap size                                    *)
(***************************************************************************)
\* scipy.stats.poisson.ppf(0.9999999, mean) for mean = 0.5, 1.0, ..., 49.5:
\* the smallest k whose Poisson cumulative probability reaches 0.9999999.
PoissonPpfTable ==
    <<7, 10, 11, 13, 14, 16, 17, 18, 19, 20, 21, 23, 24, 25, 26, 27, 27, 28,
      29, 30, 31, 32, 33, 34, 35, 36, 37, 37, 38, 39, 40, 41, 42, 42, 43, 44,
      45, 46, 46, 47, 48, 49, 50, 50, 51, 52, 53, 53, 54, 55, 56, 57, 57, 58,
      59, 60, 60, 61, 62, 63, 63, 64, 65, 65, 66, 67, 68, 68, 69, 70, 71, 71,
      72, 73, 73, 74, 75, 76, 76, 77, 78, 78, 79, 80, 80, 81, 82, 83, 83, 84,
      85, 85, 86, 87, 87, 88, 89, 89, 90>>

\* (mutant) the linear cutoff is rounded down
poisson_coverage_cutoff_floor(mean2) ==
    IF mean2 < 2 * 50
    THEN PoissonPpfTable[mean2]
    ELSE (3 * mean2 + 60) \div 4

\* poisson_coverage_cutoff(mean), the mean given doubled (mean2 = 2 * mean,
\* a median of integers is a multiple of 0.5).
poisson_coverage_cutoff(mean2) ==
    IF mean2 < 2 * 50
    THEN PoissonPpfTable[mean2]
    ELSE (3 * mean2 + 60 + 3) \div 4        \* ceil(mean * 1.5 + 15.0)

\* Fixed-point scale of the exponential below.
ExpScale == 10000
\* Number of Taylor terms, and the halvings of the argument before them.
ExpTerms == 10
ExpHalvings == 4

\* ExpScale * (sum of the Taylor terms k.. of exp(-num/den)), term = the
\* k-th term (without its sign)
RECURSIVE ExpNegTaylor(_, _, _, _)
ExpNegTaylor(num, den, k, term) ==
    IF k > ExpTerms THEN 0
    ELSE LET t == (term * num) \div (den * k)
         IN  (IF k % 2 = 1 THEN 0 - t ELSE t) + ExpNegTaylor(num, den, k + 1, t)

RECURSIVE SquareTimes(_, _)
SquareTimes(e, h) ==
    IF h = 0 THEN e ELSE SquareTimes((e * e) \div ExpScale, h - 1)

\* ExpScale * exp(-num/den), for 0 <= num/den <= 32
ExpNeg(num, den) ==
    IF num > 32 * den THEN 0
    ELSE SquareTimes(ExpScale + ExpNegTaylor(num, 16 * den, 1, ExpScale),
                     ExpHalvings)

\* utils.lander_waterman(coverage): the Lander-Waterman factor
\* 1 - exp(-coverage), times ExpScale; coverage = <<sum, length>>.
lander_waterman(coverage) == ExpScale - ExpNeg(coverage[1], coverage[2])

\* scale_min_gap_size(min_gap, mean_coverage)
scale_min_gap_size(min_gap, mean_coverage) ==
    LET lw == lander_waterman(mean_coverage)
    IN  IF lw > 0 THEN (min_gap * ExpScale) \div lw ELSE min_gap

\* utils.find_consecutive_groups(array, min_size): the maximal runs of equal
\* consecutive values of array (over 0..n-1) that are at least min_size long,
\* in order; a run is [data, start, end, length] with `end` its last position.
RECURSIVE GroupsFrom(_, _, _, _, _)
GroupsFrom(array, n, min_size, start, i) ==
    IF start >= n THEN <<>>
    ELSE IF i < n /\ array[i] = array[start]
    THEN GroupsFrom(array, n, min_size, start, i + 1)
    ELSE LET group == [data   |-> [k \in 0..(i - start - 1) |-> array[start + k]],
                       start  |-> start,
                       end    |-> i - 1,
                       length |-> i - start]
         IN  (IF group.length >= min_size THEN <<group>> ELSE <<>>)
             \o GroupsFrom(array, n, min_size, i, i + 1)

find_consecutive_groups(array, n, min_size) ==
    GroupsFrom(array, n, min_size, 0, 1)

(***************************************************************************)
(* The reference: two scaffolds, in FASTA order.                           *)
(***************************************************************************)
ScaffoldNames == <<"s1", "s2">>
Scaffolds == {"s1", "s2"}

\* Reference.lengths, keyed by scaffold
reference_lengths == [s \in Scaffolds |-> IF s = "s1" THEN LenS1 ELSE LenS2]

\* The bases of the reference sequences: s1 = ACGTN..., s2 = TNACG...
ReferenceBases == <<"A", "C", "G", "T", "N">>
reference_scaffolds ==
    [s \in Scaffolds |->
        [i \in 0..(reference_lengths[s] - 1) |->
            ReferenceBases[((i + (IF s = "s1" THEN 0 ELSE 3)) % 5) + 1]]]

Positions(s) == 0..(reference_lengths[s] - 1)

\* None
None == <<>>

(***************************************************************************)
(* class ScaffoldCallData                                                  *)
(***************************************************************************)
\* ScaffoldCallData.__init__
ScaffoldCallData(name, length) ==
    [name            |-> name,
     length          |-> length,
     read_count      |-> 0,
     refmask         |-> [i \in 0..(length - 1) |-> 0],
     alleles         |-> [i \in 0..(length - 1) |->
                            [k \in 0..1 |-> [ix \in AlleleIx |-> 0]]],
     bad             |-> [i \in 0..(length - 1) |-> 0],
     lowmq_count     |-> [i \in 0..(length - 1) |-> 0],
     lowmq           |-> None,
     mq_sum          |-> [i \in 0..(length - 1) |-> 0],
     strong          |-> None,
     weak            |-> None,
     coverage        |-> None,
     high_coverage   |-> None,
     mean_coverage   |-> <<0, 1>>,
     median_coverage |-> 0,
     coverage_cutoff |-> 0,
     gaps            |-> <<>>]

\* ScaffoldCallData.depth
depth(sd, loc) == RowSum(sd.alleles[loc][0])

\* ScaffoldCallData.qual_total
qual_total(sd, loc) == RowSum(sd.alleles[loc][1])

\* ScaffoldCallData.total_depth
total_depth(sd, loc) == depth(sd, loc) + sd.lowmq_count[loc]

\* (mutant) the coverage leaves out the reads of low mapping quality
calculate_coverage_of_good_reads(sd) ==
    LET coverage == [i \in 0..(sd.length - 1) |-> RowSum(sd.alleles[i][0])]
        median2  == Median2(coverage, sd.length)
        cutoff   == poisson_coverage_cutoff(IF median2 < 1 THEN 1 ELSE median2)
    IN  [sd EXCEPT !.coverage        = coverage,
                   !.mean_coverage   = <<SumTo(coverage, sd.length), sd.length>>,
                   !.median_coverage = median2,
                   !.coverage_cutoff = cutoff,
                   !.high_coverage   = [i \in 0..(sd.length - 1) |->
                                          coverage[i] > cutoff]]

\* ScaffoldCallData.calculate_coverage
calculate_coverage(sd) ==
    LET coverage == [i \in 0..(sd.length - 1) |->
                        RowSum(sd.alleles[i][0]) + sd.lowmq_count[i]]
        median2  == Median2(coverage, sd.length)
        cutoff   == poisson_coverage_cutoff(IF median2 < 1 THEN 1 ELSE median2)
    IN  [sd EXCEPT !.coverage        = coverage,
                   !.mean_coverage   = <<SumTo(coverage, sd.length), sd.length>>,
                   !.median_coverage = median2,
                   !.coverage_cutoff = cutoff,
                   !.high_coverage   = [i \in 0..(sd.length - 1) |->
                                          coverage[i] > cutoff]]

\* The allele bits of the columns ix of a row for which keep[ix] holds:
\* (flags * ALLELE_MASKS[numpy.newaxis, :]).sum(axis=-1)
RECURSIVE MaskSum(_, _)
MaskSum(keep, n) ==
    IF n = 0 THEN 0
    ELSE (IF keep[n - 1] THEN ALLELE_MASKS[n] ELSE 0) + MaskSum(keep, n - 1)

\* (mutant) the weak call needs a quality sum above 1
weak_call_above_one(sd, i) ==
    LET evidence == [ix \in AlleleIx |-> sd.alleles[i][1][ix] > 1]
    IN  MaskSum(evidence, 6)

\* ScaffoldCallData.call_alleles, `evidence`: the weak call at position i
weak_call(sd, i) ==
    LET evidence == [ix \in AlleleIx |-> sd.alleles[i][1][ix] > 0]
    IN  MaskSum(evidence, 6)

\* (mutant) a quality sum equal to min_pileup_qual is enough
strong_call_at_least(sd, i, min_pileup_qual, min_qual_frac, uninit) ==
    LET quals     == sd.alleles[i][1]
        qual_sums == RowSum(quals)
        above_frac(ix) ==
            IF qual_sums > 0
            THEN quals[ix] * min_qual_frac[2] > min_qual_frac[1] * qual_sums
            ELSE uninit[i]
        confirmed == [ix \in AlleleIx |->
                         quals[ix] >= min_pileup_qual /\ above_frac(ix)]
    IN  MaskSum(confirmed, 6)

\* ScaffoldCallData.call_alleles, `confirmed`: the strong call at position i.
\* min_qual_frac is <<num, den>>.  numpy.divide leaves the quotient
\* uninitialised where qual_sums is 0 (no `out` is given): uninit[i] is
\* whether such a value at position i compares above min_qual_frac.
strong_call(sd, i, min_pileup_qual, min_qual_frac, uninit) ==
    LET quals     == sd.alleles[i][1]
        qual_sums == RowSum(quals)
        above_frac(ix) ==
            IF qual_sums > 0
            THEN quals[ix] * min_qual_frac[2] > min_qual_frac[1] * qual_sums
            ELSE uninit[i]
        confirmed == [ix \in AlleleIx |->
                         quals[ix] > min_pileup_qual /\ above_frac(ix)]
    IN  MaskSum(confirmed, 6)

\* (mutant) calls in high coverage regions are not removed
call_alleles_unmasked(sd, min_pileup_qual, min_qual_frac, uninit) ==
    [sd EXCEPT
        !.weak   = [i \in 0..(sd.length - 1) |-> weak_call(sd, i)],
        !.strong = [i \in 0..(sd.length - 1) |->
                      strong_call(sd, i, min_pileup_qual, min_qual_frac,
                                  uninit)]]

\* ScaffoldCallData.call_alleles
call_alleles(sd, min_pileup_qual, min_qual_frac, uninit) ==
    [sd EXCEPT
        !.weak   = [i \in 0..(sd.length - 1) |->
                      IF sd.high_coverage[i] THEN 0 ELSE weak_call(sd, i)],
        !.strong = [i \in 0..(sd.length - 1) |->
                      IF sd.high_coverage[i] THEN 0
                      ELSE strong_call(sd, i, min_pileup_qual, min_qual_frac,
                                       uninit)]]

\* numpy.any over the data of a group
AnyData(group) == \E k \in DOMAIN group.data : group.data[k]

\* ScaffoldCallData.find_gaps, `self.lowmq`
lowmq_dominant(sd) ==
    [i \in 0..(sd.length - 1) |->
        sd.lowmq_count[i] > 1 /\ sd.lowmq_count[i] > depth(sd, i)]

\* ScaffoldCallData.find_gaps, `covered_array`
covered_array(sd) ==
    [i \in 0..(sd.length - 1) |-> sd.weak[i] > 0 \/ lowmq_dominant(sd)[i]]

\* (mutant) a gap has to be longer than the scaled minimum
find_gaps_longer(sd, min_size) ==
    LET scaled == scale_min_gap_size(min_size, sd.mean_coverage)
        groups == find_consecutive_groups(covered_array(sd), sd.length,
                                          scaled + 1)
    IN  [sd EXCEPT !.lowmq = lowmq_dominant(sd),
                   !.gaps  = SelectSeq(groups, LAMBDA group : ~AnyData(group))]

\* (mutant) the groups with coverage are kept as well
find_gaps_unfiltered(sd, min_size) ==
    LET scaled == scale_min_gap_size(min_size, sd.mean_coverage)
    IN  [sd EXCEPT !.lowmq = lowmq_dominant(sd),
                   !.gaps  = find_consecutive_groups(covered_array(sd),
                                                     sd.length, scaled)]

\* (mutant) the minimum gap size is not scaled by the coverage
find_gaps_unscaled(sd, min_size) ==
    LET groups == find_consecutive_groups(covered_array(sd), sd.length,
                                          min_size)
    IN  [sd EXCEPT !.lowmq = lowmq_dominant(sd),
                   !.gaps  = SelectSeq(groups, LAMBDA group : ~AnyData(group))]

\* ScaffoldCallData.find_gaps
find_gaps(sd, min_size) ==
    LET scaled == scale_min_gap_size(min_size, sd.mean_coverage)
        groups == find_consecutive_groups(covered_array(sd), sd.length, scaled)
    IN  [sd EXCEPT !.lowmq = lowmq_dominant(sd),
                   !.gaps  = SelectSeq(groups, LAMBDA group : ~AnyData(group))]

(***************************************************************************)
(* class VariantCallData                                                   *)
(***************************************************************************)
\* VariantCallData.__init__
VariantCallData(scaffolds, min_gap_size) ==
    [min_gap_size          |-> min_gap_size,
     reference_length      |-> SumTo([k \in 0..(Len(ScaffoldNames) - 1) |->
                                        scaffolds[ScaffoldNames[k + 1]]],
                                     Len(ScaffoldNames)),
     scaffolds_data        |-> [name \in DOMAIN scaffolds |->
                                  ScaffoldCallData(name, scaffolds[name])],
     mean_coverage         |-> <<0, 1>>,
     median_coverage       |-> 0,
     uniquely_mapped_reads |-> 0]

\* VariantCallData.build_refmask
build_refmask(cd) ==
    [cd EXCEPT !.scaffolds_data =
        [name \in DOMAIN @ |->
            [@[name] EXCEPT !.refmask =
                [i \in DOMAIN @ |->
                    IF reference_scaffolds[name][i] \in {"A", "C", "G", "T"}
                    THEN Allele_members[reference_scaffolds[name][i]]
                    ELSE @[i]]]]]

\* (mutant) the read is counted for the genome only
inc_uniquely_mapped_reads_total(cd, scaffold) ==
    [cd EXCEPT !.uniquely_mapped_reads = @ + 1]

\* VariantCallData.inc_uniquely_mapped_reads
inc_uniquely_mapped_reads(cd, scaffold) ==
    [cd EXCEPT !.uniquely_mapped_reads = @ + 1,
               !.scaffolds_data[scaffold].read_count = @ + 1]

(***************************************************************************)
(* The updates of the pileup pass work on w = [self, call_data, warnings,  *)
(* exc]: the VariantCaller, its call data, the number of warnings logged   *)
(* and the exception raised so far (NoExc when none).  An update after an  *)
(* exception is not executed.                                              *)
(***************************************************************************)
NoExc == "none"

Raise(w, e) == [w EXCEPT !.exc = e]

\* The float numpy computes for 0 / 0 (with a RuntimeWarning); the other
\* quotients are kept as pairs <<numerator, denominator>>.
NaN == <<0, 0>>

\* ScaffoldCallData.ref_qual, where refmask[loc] is a key of ALLELE_INDEX
ref_qual(sd, loc) == sd.alleles[loc][1][ALLELE_INDEX[sd.refmask[loc]]]

\* ScaffoldCallData.ref_fraction: what the call raises, and the float it
\* returns otherwise.  ALLELE_INDEX has no key 0, the refmask of a
\* reference base other than A, C, G, T.
ref_fraction(sd, loc) ==
    IF sd.refmask[loc] \notin DOMAIN ALLELE_INDEX
    THEN [exc |-> "KeyError", value |-> None]
    ELSE IF qual_total(sd, loc) = 0
    THEN [exc |-> NoExc, value |-> NaN]
    ELSE [exc |-> NoExc, value |-> <<ref_qual(sd, loc), qual_total(sd, loc)>>]

\* (mutant) a bad read counts twice
bad_read_twice(w, scaffold, pos) ==
    LET length == w.call_data.scaffolds_data[scaffold].length
    IN  IF w.exc # NoExc THEN w
        ELSE IF ~IndexOk(pos, length) THEN Raise(w, "IndexError")
        ELSE [w EXCEPT !.call_data.scaffolds_data[scaffold]
                            .bad[NumpyIndex(pos, length)] = @ + 2]

\* VariantCallData.bad_read
bad_read(w, scaffold, pos) ==
    LET length == w.call_data.scaffolds_data[scaffold].length
    IN  IF w.exc # NoExc THEN w
        ELSE IF ~IndexOk(pos, length) THEN Raise(w, "IndexError")
        ELSE [w EXCEPT !.call_data.scaffolds_data[scaffold]
                            .bad[NumpyIndex(pos, length)] = @ + 1]

\* VariantCallData.low_mapping_quality
low_mapping_quality(w, scaffold, pos) ==
    LET length == w.call_data.scaffolds_data[scaffold].length
    IN  IF w.exc # NoExc THEN w
        ELSE IF pos >= length THEN [w EXCEPT !.warnings = @ + 1]
        ELSE IF ~IndexOk(pos, length) THEN Raise(w, "IndexError")
        ELSE [w EXCEPT !.call_data.scaffolds_data[scaffold]
                            .lowmq_count[NumpyIndex(pos, length)] = @ + 1]

\* (mutant) the quality sum grows by one less than the base quality
good_read_discounted(w, scaffold, pos, allele, base_quality, mapping_quality, is_rc) ==
    LET length == w.call_data.scaffolds_data[scaffold].length
        base   == IF is_rc THEN rc(allele) ELSE allele
        ix     == ALLELE_INDEX[base]
        p      == NumpyIndex(pos, length)
    IN  IF w.exc # NoExc THEN w
        ELSE IF ~IndexOk(pos, length) THEN Raise(w, "IndexError")
        ELSE [w EXCEPT
                !.call_data.scaffolds_data[scaffold].alleles[p][0][ix] = @ + 1,
                !.call_data.scaffolds_data[scaffold].alleles[p][1][ix] =
                    @ + base_quality - 1,
                !.call_data.scaffolds_data[scaffold].mq_sum[p] =
                    @ + mapping_quality]

\* VariantCallData.good_read
good_read(w, scaffold, pos, allele, base_quality, mapping_quality, is_rc) ==
    LET length == w.call_data.scaffolds_data[scaffold].length
        base   == IF is_rc THEN rc(allele) ELSE allele
        ix     == ALLELE_INDEX[base]
        p      == NumpyIndex(pos, length)
    IN  IF w.exc # NoExc THEN w
        ELSE IF ~IndexOk(pos, length) THEN Raise(w, "IndexError")
        ELSE [w EXCEPT
                !.call_data.scaffolds_data[scaffold].alleles[p][0][ix] = @ + 1,
                !.call_data.scaffolds_data[scaffold].alleles[p][1][ix] =
                    @ + base_quality,
                !.call_data.scaffolds_data[scaffold].mq_sum[p] =
                    @ + mapping_quality]

\* VariantCallData.analyze_coverage
analyze_coverage(cd) ==
    LET data == [name \in DOMAIN cd.scaffolds_data |->
                    calculate_coverage(cd.scaffolds_data[name])]
        \* numpy.concatenate of the coverage arrays, in scaffold order
        first == data[ScaffoldNames[1]]
        all_coverage ==
            [i \in 0..(cd.reference_length - 1) |->
                IF i < first.length THEN first.coverage[i]
                ELSE data[ScaffoldNames[2]].coverage[i - first.length]]
    IN  [cd EXCEPT
            !.scaffolds_data  = data,
            !.mean_coverage   = <<SumTo(all_coverage, cd.reference_length),
                                  cd.reference_length>>,
            !.median_coverage = Median2(all_coverage, cd.reference_length)]

\* (mutant) the gaps are found in the same pass as the alleles are called
call_alleles_and_find_gaps(cd, min_pileup_qual, min_qual_frac, uninit) ==
    [cd EXCEPT !.scaffolds_data =
        [name \in DOMAIN @ |->
            find_gaps(call_alleles(@[name], min_pileup_qual, min_qual_frac,
                                   uninit[name]),
                      cd.min_gap_size)]]

\* VariantCallData.call_alleles; uninit[name] as for
\* ScaffoldCallData.call_alleles.
VariantCallData_call_alleles(cd, min_pileup_qual, min_qual_frac, uninit) ==
    [cd EXCEPT !.scaffolds_data =
        [name \in DOMAIN @ |->
            call_alleles(@[name], min_pileup_qual, min_qual_frac, uninit[name])]]

\* VariantCallData.find_gaps
VariantCallData_find_gaps(cd) ==
    [cd EXCEPT !.scaffolds_data =
        [name \in DOMAIN @ |-> find_gaps(@[name], cd.min_gap_size)]]

(***************************************************************************)
(* VariantCallData.summarize, a generator.  Its frame holds the position   *)
(* it has reached (index: the scaffolds it has gone through) and its       *)
(* running totals; `yielded` are the records it has produced so far.       *)
(***************************************************************************)
\* x & y on the low 8 bits
RECURSIVE BitAnd8(_, _, _)
BitAnd8(x, y, bits) ==
    IF bits = 0 THEN 0
    ELSE (IF x % 2 = 1 /\ y % 2 = 1 THEN 1 ELSE 0)
         + 2 * BitAnd8(x \div 2, y \div 2, bits - 1)

\* (mutant) the mask is not inverted
BitKeep8(x) == x

\* ~x for a numpy.uint8
BitNot8(x) == 255 - x

\* (mutant) one bit is enough
AnyBit(x) == x > 0

\* (x & (x - 1)) > 0
MultipleBits(x) == IF x = 0 THEN FALSE ELSE BitAnd8(x, x - 1, 8) > 0

\* numpy.count_nonzero of flag over the positions 0..length-1
CountNonzero(flag, length) ==
    Cardinality({i \in 0..(length - 1) : flag[i]})

\* utils.pct(numerator, denominator): the percentage as <<num, den>>, 0
\* when the denominator is 0
pct(numerator, denominator) ==
    IF numerator > 0 /\ denominator > 0 THEN <<100 * numerator, denominator>>
    ELSE <<0, 1>>

\* sum(g.length for g in gaps)
RECURSIVE GapLength(_)
GapLength(gaps) ==
    IF gaps = <<>> THEN 0 ELSE Head(gaps).length + GapLength(Tail(gaps))

\* The frame of summarize() before its first step
SummaryFrame ==
    [index |-> 0, total_callable |-> 0, all_coverages |-> <<>>,
     total_confirmed |-> 0, total_snps |-> 0, total_multi |-> 0,
     total_pure |-> 0, total_lowmq |-> 0, total_high_cov |-> 0,
     total_gaps |-> 0, total_gap_length |-> 0, yielded |-> <<>>]

\* The counts summarize() takes of a scaffold (the body of its loop up to
\* the yield); abundance is left to the yield
scaffold_summary(sd) ==
    LET positions == 0..(sd.length - 1)
        confirmed == [i \in positions |->
                         BitAnd8(sd.strong[i], sd.refmask[i], 8) # 0]
        snps      == [i \in positions |->
                         BitAnd8(sd.strong[i], BitNot8(sd.refmask[i]), 8) # 0]
        multi     == [i \in positions |-> MultipleBits(sd.strong[i])]
        num_callable  == CountNonzero([i \in positions |-> sd.strong[i] # 0],
                                      sd.length)
        normal        == [i \in positions |->
                             IF sd.high_coverage[i] THEN 0 ELSE sd.coverage[i]]
        lowmq         == [i \in positions |-> IF sd.lowmq[i] THEN 1 ELSE 0]
        summed_coverage == SumTo(normal, sd.length) + SumTo(lowmq, sd.length)
        num_confirmed == CountNonzero(confirmed, sd.length)
        num_snps      == CountNonzero(snps, sd.length)
        num_multi     == CountNonzero(multi, sd.length)
        pure_snps     == num_snps - num_multi
        num_lowmq     == CountNonzero(sd.lowmq, sd.length)
        num_high_cov  == CountNonzero(sd.high_coverage, sd.length)
    IN  [name         |-> sd.name,
         length       |-> sd.length,
         coverage     |-> <<summed_coverage, sd.length>>,
         median       |-> Median2([i \in positions |->
                                      sd.coverage[i] + lowmq[i]], sd.length),
         uReads       |-> sd.read_count,
         callable     |-> num_callable,
         callablePct  |-> pct(num_callable, sd.length),
         confirmed    |-> num_confirmed,
         confirmedPct |-> pct(num_confirmed, num_callable),
         snps         |-> num_snps,
         snpPct       |-> pct(num_snps, num_callable),
         pureSnps     |-> pure_snps,
         pureSnpPct   |-> pct(pure_snps, num_callable),
         multi        |-> num_multi,
         multiPct     |-> pct(num_multi, num_snps),
         lowmq        |-> num_lowmq,
         lowmqPct     |-> pct(num_lowmq, sd.length),
         high         |-> num_high_cov,
         highPct      |-> pct(num_high_cov, sd.length),
         gapCount     |-> Len(sd.gaps),
         gapLength    |-> GapLength(sd.gaps)]

\* The frame after the loop body has taken the counts r of a scaffold
summary_add(frame, r) ==
    [frame EXCEPT
        !.index            = @ + 1,
        !.total_callable   = @ + r.callable,
        !.all_coverages    = Append(@, r.coverage),
        !.total_confirmed  = @ + r.confirmed,
        !.total_snps       = @ + r.snps,
        !.total_multi      = @ + r.multi,
        !.total_pure       = @ + r.pureSnps,
        !.total_lowmq      = @ + r.lowmq,
        !.total_high_cov   = @ + r.high,
        !.total_gaps       = @ + r.gapCount,
        !.total_gap_length = @ + r.gapLength]

\* sum(v * l for v, l in zip(all_coverages, lengths)): v * l is the summed
\* coverage of the scaffold
RECURSIVE WeightedCoverage(_)
WeightedCoverage(all_coverages) ==
    IF all_coverages = <<>> THEN 0
    ELSE Head(all_coverages)[1] + WeightedCoverage(Tail(all_coverages))

\* The last record of summarize()
total_summary(cd, frame) ==
    [name         |-> "TOTAL",
     length       |-> cd.reference_length,
     coverage     |-> <<WeightedCoverage(frame.all_coverages),
                        cd.reference_length>>,
     median       |-> cd.median_coverage,
     uReads       |-> cd.uniquely_mapped_reads,
     abundance    |-> <<1, 1>>,
     callable     |-> frame.total_callable,
     callablePct  |-> pct(frame.total_callable, cd.reference_length),
     confirmed    |-> frame.total_confirmed,
     confirmedPct |-> pct(frame.total_confirmed, frame.total_callable),
     snps         |-> frame.total_snps,
     snpPct       |-> pct(frame.total_snps, frame.total_callable),
     multi        |-> frame.total_multi,
     multiPct     |-> pct(frame.total_multi, frame.total_snps),
     pureSnps     |-> frame.total_pure,
     pureSnpPct   |-> pct(frame.total_pure, frame.total_callable),
     lowmq        |-> frame.total_lowmq,
     lowmqPct     |-> pct(frame.total_lowmq, cd.reference_length),
     high         |-> frame.total_high_cov,
     highPct      |-> pct(frame.total_high_cov, cd.reference_length),
     gapCount     |-> frame.total_gaps,
     gapLength    |-> frame.total_gap_length]

(***************************************************************************)
(* class VariantCaller                                                     *)
(*                                                                         *)
(* An alignment (pysam.AlignedSegment) is a record of the attributes the   *)
(* code reads; tag_names is the set of tags it has_tag().  Its XA tag is   *)
(* the ';'-separated list of alternative hits as a sequence, a hit being   *)
(* <<scaffold, signed 1-based pos, CIGAR, NM>> and the empty piece after   *)
(* the last ';' being <<>>; a CIGAR is its characters.                     *)
(***************************************************************************)
has_tag(alignment, tag) == tag \in alignment.tag_names

abs(x) == IF x < 0 THEN 0 - x ELSE x

\* (mutant) the offset is taken from the start of the read on either strand
alternative_location_from_start(read, loc, aln) ==
    LET read_rc == read.is_reverse
        offset  == loc - read.reference_start
        is_rc   == aln[2] < 0
        pos     == abs(aln[2]) - 1
        coord   == IF is_rc THEN pos + read.query_length - offset - 1
                   ELSE pos + offset
    IN  <<aln[1], coord, is_rc # read_rc>>

\* VariantCaller._alternative_locations, the body of `if alt_nm <= nm`:
\* the <<scaffold, coord, rc>> yielded for the hit aln of the XA tag
alternative_location(read, loc, aln) ==
    LET read_rc == read.is_reverse
        offset  == IF read_rc THEN read.reference_end - loc - 1
                   ELSE loc - read.reference_start
        is_rc   == aln[2] < 0
        pos     == abs(aln[2]) - 1
        coord   == IF is_rc THEN pos + read.query_length - offset - 1
                   ELSE pos + offset
    IN  <<aln[1], coord, is_rc # read_rc>>

\* (mutant) hits with a deletion or an insertion are kept
Clipped(cigar) ==
    \E k \in 1..Len(cigar) : cigar[k] \in {"S", "H"}

\* 'S' in cigar or 'H' in cigar or 'D' in cigar or 'I' in cigar
ClippedOrIndel(cigar) ==
    \E k \in 1..Len(cigar) : cigar[k] \in {"S", "H", "D", "I"}

\* VariantCaller._alternative_locations: the sequence of <<scaffold, coord,
\* rc>> it yields.
alternative_locations(read, loc) ==
    IF has_tag(read, "XA")
    THEN LET nm   == read.NM
             kept == SelectSeq(read.XA, LAMBDA aln :
                         /\ aln # <<>>
                         /\ ~ClippedOrIndel(aln[3])
                         /\ aln[4] <= nm)
         IN  [k \in 1..Len(kept) |-> alternative_location(read, loc, kept[k])]
    ELSE <<>>

\* for scaffold, pos, rc in locations[k..]: call_data.low_mapping_quality(...)
RECURSIVE LowMappingQualityAt(_, _, _)
LowMappingQualityAt(w, locations, k) ==
    IF k > Len(locations) THEN w
    ELSE LowMappingQualityAt(
             low_mapping_quality(w, locations[k][1], locations[k][2]),
             locations, k + 1)

\* for scaffold, pos, rc in locations[k..]: call_data.good_read(...)
RECURSIVE GoodReadAt(_, _, _, _, _, _)
GoodReadAt(w, locations, k, base, qual, mq) ==
    IF k > Len(locations) THEN w
    ELSE GoodReadAt(
             good_read(w, locations[k][1], locations[k][2], base, qual, mq,
                       locations[k][3]),
             locations, k + 1, base, qual, mq)

\* VariantCaller._assess_alternative_locations
assess_alternative_locations(w, refpos, read) ==
    LET alignment == read.alignment
        mq        == alignment.mapping_quality
    IN  IF mq < w.self.min_mapping_quality
        THEN LowMappingQualityAt(w, alternative_locations(alignment, refpos), 1)
        ELSE w

\* (mutant) only the read discarded last is remembered
discard_last(w, query_name) ==
    [w EXCEPT !.self.discarded_reads = {query_name}]

discard(w, query_name) ==
    [w EXCEPT !.self.discarded_reads = @ \cup {query_name}]

\* VariantCaller._assess_read, the whole-read filters: not properly paired,
\* clipped, template shorter than the read, too many mismatches.
whole_read_defect(self, alignment) ==
    LET num_mismatches == IF has_tag(alignment, "NM") THEN alignment.NM ELSE 0
    IN  \/ alignment.is_paired /\ ~alignment.is_proper_pair
        \/ alignment.query_alignment_length # alignment.query_length
        \/ /\ alignment.is_paired
           /\ abs(alignment.template_length) < alignment.query_length
        \/ /\ self.max_num_mismatches > 0
           /\ num_mismatches > self.max_num_mismatches

\* (mutant) every good read is counted at its alternative locations too
assess_allele_replicating(w, scaffold, refpos, read, base, qual) ==
    LET alignment == read.alignment
        mq        == alignment.mapping_quality
    IN  IF mq < w.self.min_mapping_quality
        THEN assess_alternative_locations(
                 low_mapping_quality(w, scaffold, refpos), refpos, read)
        ELSE LET good == good_read(w, scaffold, refpos, base, qual, mq, FALSE)
             IN  GoodReadAt(good, alternative_locations(alignment, refpos),
                            1, base, qual, mq)

\* VariantCaller._assess_read, from "check for decent mapping quality": the
\* read has passed the filters and its allele is base.
assess_allele(w, scaffold, refpos, read, base, qual) ==
    LET alignment == read.alignment
        mq        == alignment.mapping_quality
    IN  IF mq < w.self.min_mapping_quality
        THEN assess_alternative_locations(
                 low_mapping_quality(w, scaffold, refpos), refpos, read)
        ELSE LET good == good_read(w, scaffold, refpos, base, qual, mq, FALSE)
             IN  IF mq <= 3
                 THEN GoodReadAt(good, alternative_locations(alignment, refpos),
                                 1, base, qual, mq)
                 ELSE good

\* (mutant) a base of low quality discards the whole read
assess_base_discarding(w, scaffold, refpos, read) ==
    LET alignment == read.alignment
        pos  == read.query_position_or_next
        qual == alignment.query_qualities[pos + 1]
        base == IF read.is_del THEN DEL
                ELSE IF read.indel > 0 THEN INS
                ELSE from_str(alignment.query_sequence[pos + 1])
    IN  IF qual < w.self.min_qual
        THEN bad_read(discard(w, alignment.query_name), scaffold, refpos)
        ELSE IF base = N
        THEN bad_read(w, scaffold, refpos)
        ELSE assess_allele(w, scaffold, refpos, read, base, qual)

\* VariantCaller._assess_read, from "get base quality": the base quality
\* filter and the allele of the pileup entry.
assess_base(w, scaffold, refpos, read) ==
    LET alignment == read.alignment
        pos  == read.query_position_or_next
        qual == alignment.query_qualities[pos + 1]
        base == IF read.is_del THEN DEL
                ELSE IF read.indel > 0 THEN INS
                ELSE from_str(alignment.query_sequence[pos + 1])
    IN  IF qual < w.self.min_qual
        THEN bad_read(w, scaffold, refpos)
        ELSE IF base = N
        THEN bad_read(w, scaffold, refpos)
        ELSE assess_allele(w, scaffold, refpos, read, base, qual)

\* (mutant) the discarded reads are not remembered
assess_read_unmemoized(w, scaffold, refpos, read) ==
    LET alignment == read.alignment
    IN  IF whole_read_defect(w.self, alignment)
        THEN bad_read(discard(w, alignment.query_name), scaffold, refpos)
        ELSE assess_base(w, scaffold, refpos, read)

\* VariantCaller._assess_read
assess_read(w, scaffold, refpos, read) ==
    LET alignment == read.alignment
    IN  IF alignment.query_name \in w.self.discarded_reads
        THEN bad_read(w, scaffold, refpos)
        ELSE IF whole_read_defect(w.self, alignment)
        THEN bad_read(discard(w, alignment.query_name), scaffold, refpos)
        ELSE assess_base(w, scaffold, refpos, read)

\* (mutant) clipped alignments count as well
counts_as_unique_clipped(self, alignment) ==
    LET num_mismatches == IF has_tag(alignment, "NM") THEN alignment.NM ELSE 0
    IN  /\ ~(alignment.mapping_quality < 3 \/ has_tag(alignment, "XA"))
        /\ ~(alignment.is_paired /\ ~alignment.is_proper_pair)
        /\ ~(/\ alignment.is_paired
             /\ abs(alignment.template_length) < alignment.query_length)
        /\ ~(/\ self.max_num_mismatches > 0
             /\ num_mismatches > self.max_num_mismatches)

\* The abundance pass of VariantCaller.process: whether the alignment counts
\* as a uniquely mapped read.
counts_as_unique(self, alignment) ==
    LET num_mismatches == IF has_tag(alignment, "NM") THEN alignment.NM ELSE 0
    IN  /\ ~(alignment.mapping_quality < 3 \/ has_tag(alignment, "XA"))
        /\ ~(alignment.is_paired /\ ~alignment.is_proper_pair)
        /\ ~(alignment.query_alignment_length # alignment.query_length)
        /\ ~(/\ alignment.is_paired
             /\ abs(alignment.template_length) < alignment.query_length)
        /\ ~(/\ self.max_num_mismatches > 0
             /\ num_mismatches > self.max_num_mismatches)

(***************************************************************************)
(* The inputs: BAM files, as the set of alignments a file may hold.  Every *)
(* read is two bases long.                                                 *)
(***************************************************************************)
\* A properly paired, unclipped, uniquely mapped forward read on s1.
Sound ==
    [query_name             |-> "r1",
     is_paired              |-> TRUE,
     is_proper_pair         |-> TRUE,
     query_length           |-> 2,
     query_alignment_length |-> 2,
     template_length        |-> -2,
     tag_names              |-> {"NM"},
     NM                     |-> 0,
     XA                     |-> <<>>,
     mapping_quality        |-> 5,
     is_reverse             |-> FALSE,
     reference_name         |-> "s1",
     reference_start        |-> 0,
     reference_end          |-> 2,
     query_qualities        |-> <<1, 2>>,
     query_sequence         |-> <<"A", "C">>]

\* <<is_paired, is_proper_pair, template_length>>
Pairings == {<<FALSE, FALSE, 1>>, <<TRUE, TRUE, -2>>, <<TRUE, TRUE, 1>>,
             <<TRUE, FALSE, -2>>}

\* <<tag_names, NM>>
MismatchTags == {<<{}, 0>>, <<{"NM"}, 0>>, <<{"NM"}, 2>>}

\* Reads of two names with and without whole-read defects, and with a base
\* of quality 0.
BamDefects ==
    {[Sound EXCEPT !.is_paired = p[1],
                   !.is_proper_pair = p[2],
                   !.template_length = p[3],
                   !.query_alignment_length = len,
                   !.tag_names = t[1],
                   !.NM = t[2]] :
        p \in Pairings, len \in {1, 2}, t \in MismatchTags}
    \cup {[Sound EXCEPT !.query_name = "r2",
                        !.is_paired = p[1],
                        !.is_proper_pair = p[2],
                        !.template_length = p[3]] : p \in Pairings}
    \cup {[Sound EXCEPT !.query_name = name, !.query_qualities = <<0, 2>>] :
            name \in {"r1", "r2"}}

\* XA:Z:s2,+1,2M,0;s1,-2,2M,1;s2,+1,1S1M,0;
XAa == << <<"s2", 1, <<"2", "M">>, 0>>,
          <<"s1", -2, <<"2", "M">>, 1>>,
          <<"s2", 1, <<"1", "S", "1", "M">>, 0>>,
          <<>> >>

\* The first hit starts at the last base of s2, so that the second base of
\* the read falls outside s2.
XAb == << <<"s2", LenS2, <<"2", "M">>, 0>>,
          <<"s2", -1, <<"2", "M">>, 0>>,
          <<"s1", 1, <<"1", "M", "1", "D", "1", "M">>, 0>>,
          <<"s2", 1, <<"1", "H", "1", "M">>, 0>>,
          <<"s1", 2, <<"1", "M", "1", "I">>, 0>> >>

\* Multiply mapped reads of mapping quality 3 and 5, on either strand, one
\* of them with a deletion and one with an insertion after its first base.
BamAlternatesA ==
    {[Sound EXCEPT !.mapping_quality = 3,
                   !.is_reverse = r,
                   !.NM = nm,
                   !.tag_names = {"NM", "XA"},
                   !.XA = XAa] : r \in BOOLEAN, nm \in {0, 1}}
    \cup {[Sound EXCEPT !.tag_names = {"NM", "XA"}, !.XA = XAa],
          [Sound EXCEPT !.mapping_quality = 3, !.is_reverse = TRUE, !.NM = 1,
                        !.tag_names = {"NM", "XA"}, !.XA = XAa,
                        !.reference_end = 3],
          [Sound EXCEPT !.mapping_quality = 3, !.NM = 1,
                        !.tag_names = {"NM", "XA"}, !.XA = XAa,
                        !.reference_end = 1]}

BamAlternatesB ==
    {[Sound EXCEPT !.mapping_quality = 3,
                   !.is_reverse = r,
                   !.NM = nm,
                   !.tag_names = {"NM", "XA"},
                   !.XA = XAb] : r \in BOOLEAN, nm \in {0, 1}}

\* Uniquely mapped reads: of low mapping quality, with other base
\* characters, on s2, with a deletion, with an insertion.
BamBases ==
    {Sound,
     [Sound EXCEPT !.mapping_quality = 2],
     [Sound EXCEPT !.query_sequence = <<"N", "G">>],
     [Sound EXCEPT !.query_sequence = <<"a", "T">>, !.reference_name = "s2"],
     [Sound EXCEPT !.reference_end = 3],
     [Sound EXCEPT !.reference_end = 1]}

\* The calls of process(): a BAM file with the thresholds of the
\* VariantCaller that its reads make matter.  max_num_mismatches = 0
\* disables the mismatch filter.
Runs ==
    {[bamfile |-> BamDefects, min_qual |-> 1, min_mapping_quality |-> 5,
      max_num_mismatches |-> m] : m \in {0, 1}}
    \cup {[bamfile |-> b, min_qual |-> 1, min_mapping_quality |-> q,
           max_num_mismatches |-> 0] :
            b \in {BamAlternatesA, BamAlternatesB, BamBases}, q \in {3, 5}}

\* The pileup entries of an alignment: one per reference position it spans.
\* A read spanning one base more than its length has a deletion after its
\* first base, one spanning one less an insertion after its first base.
PileupEntry(alignment, offset, qpos, is_del, indel) ==
    [kind           |-> "pileup",
     reference_name |-> alignment.reference_name,
     reference_pos  |-> alignment.reference_start + offset,
     read           |-> [alignment              |-> alignment,
                         query_position_or_next |-> qpos,
                         is_del                 |-> is_del,
                         indel                  |-> indel]]

PileupEntries(alignment) ==
    LET span == alignment.reference_end - alignment.reference_start
    IN  IF span = alignment.query_length
        THEN {PileupEntry(alignment, q, q, FALSE, 0) :
                q \in 0..(alignment.query_length - 1)}
        ELSE IF span = alignment.query_length + 1
        THEN {PileupEntry(alignment, 0, 0, FALSE, -1),
              PileupEntry(alignment, 1, 1, TRUE, 0),
              PileupEntry(alignment, 2, 1, FALSE, 0)}
        ELSE {PileupEntry(alignment, 0, 0, FALSE, 1)}

Pileup(bam) == UNION {PileupEntries(alignment) : alignment \in bam}

NoInput == [kind |-> "none"]

(***************************************************************************)
(* State: the VariantCaller (self), the VariantCallData being filled by    *)
(* process(), the warnings logged, the exception that ended process(),     *)
(* the BAM file, the position of process() (pc), the number of inputs the  *)
(* current pass has consumed (n) and the last of them, and the generator   *)
(* summarize() of the call data that process() returns; and a second       *)
(* VariantCaller (other), of the same thresholds.                          *)
(***************************************************************************)
VARIABLES self, call_data, warnings, exc, bamfile, pc, n, last, summary, other

vars == <<self, call_data, warnings, exc, bamfile, pc, n, last, summary,
         other>>

\* VariantCaller.__init__
VariantCaller(min_qual, min_pileup_qual, min_qual_frac, min_mapping_quality, min_gap_size, max_num_mismatches) ==
    [min_qual            |-> min_qual,
     min_pileup_qual     |-> min_pileup_qual,
     min_qual_frac       |-> min_qual_frac,
     min_mapping_quality |-> min_mapping_quality,
     min_gap_size        |-> min_gap_size,
     max_num_mismatches  |-> max_num_mismatches,
     discarded_reads     |-> {}]

\* A VariantCaller has been constructed and process(reference, bamfile) has
\* built its VariantCallData and refmask.
Init ==
    /\ \E run \in Runs :
          /\ self = VariantCaller(run.min_qual, 1, <<1, 10>>,
                                  run.min_mapping_quality, 1,
                                  run.max_num_mismatches)
          /\ bamfile = run.bamfile
    /\ call_data = build_refmask(VariantCallData(reference_lengths, 1))
    /\ warnings = 0
    /\ exc = NoExc
    /\ pc = "abundance"
    /\ n = 0
    /\ last = NoInput
    /\ summary = SummaryFrame
    /\ other = self

\* for alignment in bamfile.fetch(): one iteration
Fetch(alignment) ==
    /\ pc = "abundance"
    /\ n < MaxRecords
    /\ call_data' = IF counts_as_unique(self, alignment)
                    THEN inc_uniquely_mapped_reads(call_data,
                                                   alignment.reference_name)
                    ELSE call_data
    /\ n' = n + 1
    /\ last' = [kind |-> "alignment", alignment |-> alignment]
    /\ UNCHANGED <<self, warnings, exc, bamfile, pc, summary, other>>

\* (mutant) the names discarded before are kept
keep_discarded(caller) == caller

\* self.discarded_reads = set()
reset_discarded(caller) == [caller EXCEPT !.discarded_reads = {}]

\* The abundance loop ends; self.discarded_reads = set()
StartPileup ==
    /\ pc = "abundance"
    /\ self' = reset_discarded(self)
    /\ pc' = "pileup"
    /\ n' = 0
    /\ last' = NoInput
    /\ UNCHANGED <<call_data, warnings, exc, bamfile, summary, other>>

\* bamfile.pileup() yields the columns scaffold by scaffold, in the order
\* of the reference, and by ascending position.
ScaffoldIndex(name) ==
    CHOOSE k \in 1..Len(ScaffoldNames) : ScaffoldNames[k] = name

ColumnBefore(e1, e2) ==
    \/ ScaffoldIndex(e1.reference_name) < ScaffoldIndex(e2.reference_name)
    \/ /\ e1.reference_name = e2.reference_name
       /\ e1.reference_pos < e2.reference_pos

\* for column in bamfile.pileup(): for read in column.pileups: one
\* self._assess_read(call_data, scaffold, refpos, read)
AssessRead(entry) ==
    /\ pc = "pileup"
    /\ n < MaxPileup
    /\ last.kind = "pileup" => ~ColumnBefore(entry, last)
    /\ LET w  == [self |-> self, call_data |-> call_data,
                  warnings |-> warnings, exc |-> exc]
           w2 == assess_read(w, entry.reference_name, entry.reference_pos,
                             entry.read)
       IN  /\ self' = w2.self
           /\ call_data' = w2.call_data
           /\ warnings' = w2.warnings
           /\ exc' = w2.exc
           /\ pc' = IF w2.exc # NoExc THEN "raised" ELSE "pileup"
    /\ n' = n + 1
    /\ last' = entry
    /\ UNCHANGED <<bamfile, summary, other>>

\* The pileup loop ends; call_data.analyze_coverage()
AnalyzeCoverage ==
    /\ pc = "pileup"
    /\ call_data' = analyze_coverage(call_data)
    /\ pc' = "call_alleles"
    /\ UNCHANGED <<self, warnings, exc, bamfile, n, last, summary, other>>

\* The values the uninitialised quotients of call_alleles may compare as.
\* They are read where qual_sums is 0, and decide a bit only where the
\* quality sum 0 is itself above min_pileup_qual; elsewhere the choice is
\* fixed, since it changes nothing.
UninitChoices(sd, min_pileup_qual) ==
    LET decisive == {i \in 0..(sd.length - 1) :
                        qual_total(sd, i) = 0 /\ 0 > min_pileup_qual}
    IN  {[i \in 0..(sd.length - 1) |-> i \in chosen] :
            chosen \in SUBSET decisive}

\* call_data.call_alleles(self.min_pileup_qual, self.min_qual_frac)
CallAlleles ==
    /\ pc = "call_alleles"
    /\ \E u1 \in UninitChoices(call_data.scaffolds_data["s1"],
                               self.min_pileup_qual),
          u2 \in UninitChoices(call_data.scaffolds_data["s2"],
                               self.min_pileup_qual) :
          call_data' = VariantCallData_call_alleles(
                           call_data, self.min_pileup_qual, self.min_qual_frac,
                           [name \in Scaffolds |->
                               IF name = "s1" THEN u1 ELSE u2])
    /\ pc' = "find_gaps"
    /\ UNCHANGED <<self, warnings, exc, bamfile, n, last, summary, other>>

\* call_data.find_gaps(); return call_data
FindGaps ==
    /\ pc = "find_gaps"
    /\ call_data' = VariantCallData_find_gaps(call_data)
    /\ pc' = "done"
    /\ UNCHANGED <<self, warnings, exc, bamfile, n, last, summary, other>>

\* next() on summarize(), inside its loop: the counts of the next scaffold
\* are taken and its record is yielded.  read_count and
\* uniquely_mapped_reads are Python ints: their quotient raises
\* ZeroDivisionError when no read was uniquely mapped, which ends the
\* generator.
SummarizeScaffold ==
    /\ pc = "done"
    /\ summary.index < Len(ScaffoldNames)
    /\ LET sd    == call_data.scaffolds_data[ScaffoldNames[summary.index + 1]]
           r     == scaffold_summary(sd)
           frame == summary_add(summary, r)
       IN  IF call_data.uniquely_mapped_reads = 0
           THEN /\ summary' = frame
                /\ exc' = "ZeroDivisionError"
                /\ pc' = "summarize_raised"
           ELSE /\ summary' =
                      [frame EXCEPT !.yielded =
                          Append(@, [abundance |->
                                        <<sd.read_count,
                                          call_data.uniquely_mapped_reads>>]
                                    @@ r)]
                /\ UNCHANGED <<exc, pc>>
    /\ UNCHANGED <<self, call_data, warnings, bamfile, n, last, other>>

\* next() on summarize(), after its loop: the TOTAL record is yielded, and
\* the generator has nothing left to yield.
SummarizeTotal ==
    /\ pc = "done"
    /\ summary.index = Len(ScaffoldNames)
    /\ summary' = [summary EXCEPT
                      !.yielded = Append(@, total_summary(call_data, summary))]
    /\ pc' = "summarized"
    /\ UNCHANGED <<self, call_data, warnings, exc, bamfile, n, last, other>>

Next ==
    \/ \E alignment \in bamfile : Fetch(alignment)
    \/ StartPileup
    \/ \E entry \in Pileup(bamfile) : AssessRead(entry)
    \/ AnalyzeCoverage
    \/ CallAlleles
    \/ FindGaps
    \/ SummarizeScaffold
    \/ SummarizeTotal

Spec == Init /\ [][Next]_vars

(***************************************************************************)
(* The post-processing passes on their own, from any evidence the pileup   *)
(* pass may leave behind.  The evidence at a position is [count, qual,     *)
(* lowmq_count]: the reads counted and the sum of their base qualities,    *)
(* per allele (in the order of ALLELE_MASKS), and the reads of low mapping *)
(* quality.  A quality sum of 0 under a positive count comes from bases of *)
(* quality 0, which min_qual = 0 lets through.                             *)
(***************************************************************************)
Evidence ==
    {[count |-> <<0, 0, 0, 0, 0, 0>>,  qual |-> <<0, 0, 0, 0, 0, 0>>,
      lowmq_count |-> 0],
     [count |-> <<1, 0, 0, 0, 0, 0>>,  qual |-> <<1, 0, 0, 0, 0, 0>>,
      lowmq_count |-> 0],
     [count |-> <<1, 0, 0, 0, 0, 0>>,  qual |-> <<0, 0, 0, 0, 0, 0>>,
      lowmq_count |-> 0],
     [count |-> <<0, 0, 0, 0, 0, 0>>,  qual |-> <<0, 0, 0, 0, 0, 0>>,
      lowmq_count |-> 1],
     [count |-> <<0, 0, 0, 0, 0, 0>>,  qual |-> <<0, 0, 0, 0, 0, 0>>,
      lowmq_count |-> 2],
     [count |-> <<2, 0, 0, 1, 0, 0>>,  qual |-> <<2, 0, 0, 1, 0, 0>>,
      lowmq_count |-> 0],
     [count |-> <<0, 12, 0, 0, 0, 0>>, qual |-> <<0, 12, 0, 0, 0, 0>>,
      lowmq_count |-> 0]}

\* s2 carries the same evidence at all its positions: none, or one read.
EvidenceS2 == {e \in Evidence : RowSum([ix \in AlleleIx |-> e.count[ix + 1]]) < 2
                                /\ e.qual = e.count /\ e.lowmq_count = 0}

\* The scaffold data with the given evidence: evidence[i] at position i
WithEvidence(sd, evidence) ==
    [sd EXCEPT
        !.alleles     = [i \in DOMAIN @ |->
                            [k \in 0..1 |->
                                [ix \in AlleleIx |->
                                    IF k = 0 THEN evidence[i].count[ix + 1]
                                    ELSE evidence[i].qual[ix + 1]]]],
        !.lowmq_count = [i \in DOMAIN @ |-> evidence[i].lowmq_count]]

\* The thresholds of call_alleles and find_gaps: min_pileup_qual,
\* min_qual_frac as <<num, den>>, min_gap_size; and the reads that the
\* abundance pass has counted on s1 and on s2.
StatsRuns == {<<-1, <<1, 10>>, 1, <<0, 0>>>>, <<0, <<1, 10>>, 1, <<1, 0>>>>,
              <<0, <<1, 3>>, 2, <<1, 2>>>>, <<1, <<1, 2>>, 1, <<0, 1>>>>,
              <<1, <<1, 10>>, 2, <<2, 1>>>>}

\* process() has finished its pileup loop.
InitStats ==
    /\ \E run \in StatsRuns, e1 \in [Positions("s1") -> Evidence],
          e2 \in EvidenceS2 :
          LET cd == build_refmask(VariantCallData(reference_lengths, run[3]))
          IN  /\ self = VariantCaller(0, run[1], run[2], 5, run[3], 0)
              /\ call_data =
                    [cd EXCEPT
                        !.uniquely_mapped_reads = run[4][1] + run[4][2],
                        !.scaffolds_data["s1"].read_count = run[4][1],
                        !.scaffolds_data["s2"].read_count = run[4][2],
                        !.scaffolds_data["s1"] = WithEvidence(@, e1),
                        !.scaffolds_data["s2"] =
                            WithEvidence(@, [i \in Positions("s2") |-> e2])]
    /\ warnings = 0
    /\ exc = NoExc
    /\ bamfile = {}
    /\ pc = "pileup"
    /\ n = 0
    /\ last = NoInput
    /\ summary = SummaryFrame
    /\ other = self

NextStats ==
    \/ AnalyzeCoverage
    \/ CallAlleles
    \/ FindGaps
    \/ SummarizeScaffold
    \/ SummarizeTotal

SpecStats == InitStats /\ [][NextStats]_vars


(***************************************************************************)
(* The accessors of the scaffold data, called on the call data process()   *)
(* has returned: last holds the call and what it returned or raised.       *)
(***************************************************************************)
\* call_data.scaffolds_data[scaffold].ref_fraction(loc)
RefFraction(scaffold, loc) ==
    /\ pc = "done"
    /\ last' = [kind     |-> "ref_fraction",
                scaffold |-> scaffold,
                loc      |-> loc,
                returned |-> ref_fraction(call_data.scaffolds_data[scaffold],
                                          loc)]
    /\ UNCHANGED <<self, call_data, warnings, exc, bamfile, pc, n, summary,
                   other>>

NextAccessors ==
    \/ AnalyzeCoverage
    \/ CallAlleles
    \/ FindGaps
    \/ \E scaffold \in Scaffolds :
          \E loc \in Positions(scaffold) : RefFraction(scaffold, loc)

SpecAccessors == InitStats /\ [][NextAccessors]_vars

(***************************************************************************)
(* The methods of Allele, called on any of the 64 combinations of allele   *)
(* bits: last holds the call and what it returned.                         *)
(***************************************************************************)
\* for allele in Allele: the members in definition order (N is among them
\* before Python 3.11, and never passes the test of __iter__)
AlleleMembers == <<N, A, C, G, T, INS, DEL>>

\* Allele.__iter__, from the k-th member on
RECURSIVE IterFrom(_, _)
IterFrom(value, k) ==
    IF k > Len(AlleleMembers) THEN <<>>
    ELSE IF BitAnd8(value, AlleleMembers[k], 8) # 0
    THEN <<AlleleMembers[k]>> \o IterFrom(value, k + 1)
    ELSE IterFrom(value, k + 1)

\* Allele.__iter__
Allele_iter(value) == IterFrom(value, 1)

\* _allele_to_str
allele_to_str(value) ==
    CHOOSE name \in DOMAIN Allele_members : Allele_members[name] = value

\* ",".join(str(v) for v in alleles[k..]); str(v) of a single allele is
\* _allele_to_str(v)
RECURSIVE JoinFrom(_, _)
JoinFrom(alleles, k) ==
    IF k > Len(alleles) THEN ""
    ELSE IF k = Len(alleles) THEN allele_to_str(alleles[k])
    ELSE allele_to_str(alleles[k]) \o "," \o JoinFrom(alleles, k + 1)

\* (mutant) the names are joined without commas
RECURSIVE JoinBare(_, _)
JoinBare(alleles, k) ==
    IF k > Len(alleles) THEN ""
    ELSE allele_to_str(alleles[k]) \o JoinBare(alleles, k + 1)

\* (mutant) __str__ joining the names without commas
Allele_str_bare(value) ==
    LET alleles == Allele_iter(value)
    IN  IF Len(alleles) = 1 THEN allele_to_str(alleles[1])
        ELSE JoinBare(alleles, 1)

\* Allele.__str__
Allele_str(value) ==
    LET alleles == Allele_iter(value)
    IN  IF Len(alleles) = 1 THEN allele_to_str(alleles[1])
        ELSE JoinFrom(alleles, 1)

InitAllele ==
    /\ self = VariantCaller(1, 1, <<1, 10>>, 5, 1, 0)
    /\ call_data = build_refmask(VariantCallData(reference_lengths, 1))
    /\ warnings = 0
    /\ exc = NoExc
    /\ bamfile = {}
    /\ pc = "abundance"
    /\ n = 0
    /\ last = NoInput
    /\ summary = SummaryFrame
    /\ other = self

\* Allele(value).rc()
AlleleRc(value) ==
    /\ last' = [kind |-> "rc", value |-> value, returned |-> rc(value)]
    /\ UNCHANGED <<self, call_data, warnings, exc, bamfile, pc, n, summary,
                   other>>

\* .rc() of what rc() has returned
AlleleRcAgain ==
    /\ last.kind = "rc"
    /\ last' = [kind |-> "rc_rc", value |-> last.value,
                returned |-> rc(last.returned)]
    /\ UNCHANGED <<self, call_data, warnings, exc, bamfile, pc, n, summary,
                   other>>

\* list(Allele(value))
AlleleIter(value) ==
    /\ last' = [kind |-> "iter", value |-> value,
                returned |-> Allele_iter(value)]
    /\ UNCHANGED <<self, call_data, warnings, exc, bamfile, pc, n, summary,
                   other>>

\* str(Allele(value))
AlleleStr(value) ==
    /\ last' = [kind |-> "str", value |-> value,
                returned |-> Allele_str(value)]
    /\ UNCHANGED <<self, call_data, warnings, exc, bamfile, pc, n, summary,
                   other>>

NextAllele ==
    \/ \E value \in AlleleMaskValues : AlleleRc(value)
    \/ AlleleRcAgain
    \/ \E value \in AlleleMaskValues : AlleleIter(value)
    \/ \E value \in AlleleMaskValues : AlleleStr(value)

SpecAllele == InitAllele /\ [][NextAllele]_vars

(***************************************************************************)
(* _alternative_locations on its own: the locations of every pileup        *)
(* position of an alignment without indels, of two or three bases, on      *)
(* either strand, with two hits in its XA tag.                             *)
(***************************************************************************)
\* The hits: scaffold, signed 1-based position, CIGAR, mismatches
AnchorHits(len) ==
    {<<"s1", q, <<IF len = 2 THEN "2" ELSE "3", "M">>, 0>> :
        q \in {-4, -2, -1, 1, 3}}

UngappedOf(len) ==
    {[Sound EXCEPT !.query_length = len,
                   !.query_alignment_length = len,
                   !.query_sequence = SubSeq(<<"A", "C", "G">>, 1, len),
                   !.query_qualities = SubSeq(<<1, 2, 2>>, 1, len),
                   !.mapping_quality = 3,
                   !.tag_names = {"NM", "XA"},
                   !.XA = <<h1, h2>>,
                   !.is_reverse = r,
                   !.reference_start = start,
                   !.reference_end = start + len] :
        r \in BOOLEAN, start \in {0, 1},
        h1 \in AnchorHits(len), h2 \in AnchorHits(len)}

UngappedAlignments == UngappedOf(2) \cup UngappedOf(3)

\* [self._alternative_locations(read, loc) for loc in
\*  range(read.reference_start, read.reference_end)]
AlternativeLocations(read) ==
    /\ last' = [kind |-> "alternative_locations",
                read |-> read,
                returned |->
                    [loc \in read.reference_start..(read.reference_end - 1)
                        |-> alternative_locations(read, loc)]]
    /\ UNCHANGED <<self, call_data, warnings, exc, bamfile, pc, n, summary,
                   other>>

NextLocations == \E read \in UngappedAlignments : AlternativeLocations(read)

SpecLocations == InitAllele /\ [][NextLocations]_vars

(***************************************************************************)
(* The post-processing passes on deep coverage: s1 holds, per position,    *)
(* one of a few depths of 50 reads and more, of counted reads or of reads  *)
(* of low mapping quality; s2 holds no read.                               *)
(***************************************************************************)
\* count reads of allele C, of base quality 1, and lowmq reads of low
\* mapping quality
DeepEvidence(count, lowmq) ==
    [count |-> <<0, count, 0, 0, 0, 0>>, qual |-> <<0, count, 0, 0, 0, 0>>,
     lowmq_count |-> lowmq]

CoverageEvidence ==
    {DeepEvidence(50, 0), DeepEvidence(0, 91), DeepEvidence(60, 40),
     DeepEvidence(165, 0), DeepEvidence(166, 0)}

InitCoverage ==
    /\ \E e1 \in [Positions("s1") -> CoverageEvidence] :
          LET cd == build_refmask(VariantCallData(reference_lengths, 1))
          IN  call_data =
                  [cd EXCEPT
                      !.uniquely_mapped_reads = 1,
                      !.scaffolds_data["s1"].read_count = 1,
                      !.scaffolds_data["s1"] = WithEvidence(@, e1)]
    /\ self = VariantCaller(0, 50, <<1, 10>>, 5, 1, 0)
    /\ warnings = 0
    /\ exc = NoExc
    /\ bamfile = {}
    /\ pc = "pileup"
    /\ n = 0
    /\ last = NoInput
    /\ summary = SummaryFrame
    /\ other = self

SpecCoverage == InitCoverage /\ [][NextStats]_vars

(***************************************************************************)
(* SampleComparison.compare_gaps, on scaffold s1 of two samples: the call  *)
(* data of the state and that of a second sample, both post-processed with *)
(* the same thresholds.  A position has no, two or four reads.             *)
(***************************************************************************)
CompareEvidence == {DeepEvidence(0, 0), DeepEvidence(2, 0), DeepEvidence(4, 0)}

\* The call data of a sample with the given evidence on s1
SampleWith(e1, min_gap_size) ==
    LET cd == build_refmask(VariantCallData(reference_lengths, min_gap_size))
    IN  [cd EXCEPT !.scaffolds_data["s1"] = WithEvidence(@, e1)]

\* The call data process() returns for such a sample
Processed(cd, caller) ==
    VariantCallData_find_gaps(
        VariantCallData_call_alleles(
            analyze_coverage(cd), caller.min_pileup_qual, caller.min_qual_frac,
            [name \in Scaffolds |->
                [i \in Positions(name) |-> FALSE]]))

\* gap_tree[begin:end] of the intervaltree package: the intervals of the
\* tree that overlap begin..end-1, none when begin >= end.  The tree holds
\* the interval g.start..g.end-1 for the gap g.
IntervalTree_overlap(gaps, begin, end) ==
    IF begin >= end THEN {}
    ELSE {k \in 1..Len(gaps) : gaps[k].start < end /\ gaps[k].end > begin}

\* IntervalTree.from_tuples raises ValueError for an interval with
\* begin >= end
IntervalTree_raises(gaps) ==
    \E k \in 1..Len(gaps) : gaps[k].start >= gaps[k].end

\* SampleComparison.compare_gaps: what the call raises, and the record it
\* returns otherwise
compare_gaps(a, b) ==
    LET a_length == GapLength(a.gaps)
        b_length == GapLength(b.gaps)
        a_shared == SelectSeq(b.gaps, LAMBDA g :
                        IntervalTree_overlap(a.gaps, g.start, g.end) # {})
        b_shared == SelectSeq(a.gaps, LAMBDA g :
                        IntervalTree_overlap(b.gaps, g.start, g.end) # {})
        a_shared_length == GapLength(a_shared)
        b_shared_length == GapLength(b_shared)
    IN  IF IntervalTree_raises(a.gaps) \/ IntervalTree_raises(b.gaps)
        THEN [exc |-> "ValueError", value |-> None]
        ELSE [exc   |-> NoExc,
              value |-> [Alength     |-> a_length,
                         AsharedGaps |-> a_shared_length,
                         AgapPct     |-> pct(a_shared_length, a_length),
                         Blength     |-> b_length,
                         BsharedGaps |-> b_shared_length,
                         BgapPct     |-> pct(b_shared_length, b_length)]]

InitCompare ==
    /\ \E e1 \in [Positions("s1") -> CompareEvidence], min_gap_size \in {1, 2} :
          /\ call_data = SampleWith(e1, min_gap_size)
          /\ self = VariantCaller(0, 0, <<1, 10>>, 5, min_gap_size, 0)
    /\ warnings = 0
    /\ exc = NoExc
    /\ bamfile = {}
    /\ pc = "pileup"
    /\ n = 0
    /\ last = NoInput
    /\ summary = SummaryFrame
    /\ other = self

\* self.compare_gaps(scaffoldA, scaffoldB), the second sample having the
\* evidence e1 on s1
CompareGaps(e1) ==
    /\ pc = "done"
    /\ LET a == call_data.scaffolds_data["s1"]
           b == Processed(SampleWith(e1, self.min_gap_size),
                          self).scaffolds_data["s1"]
       IN  last' = [kind     |-> "compare_gaps",
                    b_gaps   |-> b.gaps,
                    returned |-> compare_gaps(a, b)]
    /\ UNCHANGED <<self, call_data, warnings, exc, bamfile, pc, n, summary,
                   other>>

NextCompare ==
    \/ AnalyzeCoverage
    \/ CallAlleles
    \/ FindGaps
    \/ \E e1 \in [Positions("s1") -> CompareEvidence] : CompareGaps(e1)

SpecCompare == InitCompare /\ [][NextCompare]_vars

(***************************************************************************)
(* One VariantCaller processing two samples in turn, next to another       *)
(* VariantCaller that processes a sample of its own.  Read r1 is not       *)
(* properly paired in the first sample, and sound in the second.           *)
(***************************************************************************)
Unpaired(name) ==
    [Sound EXCEPT !.query_name = name,
                  !.is_paired = TRUE,
                  !.is_proper_pair = FALSE]

SampleOne == {Unpaired("r1"), [Sound EXCEPT !.query_name = "r2"]}

SampleTwo == {Sound}

SampleOther == {Unpaired("r1"), Unpaired("r2")}

InitReuse ==
    /\ self = VariantCaller(1, 1, <<1, 10>>, 5, 1, 0)
    /\ bamfile = SampleOne
    /\ call_data = build_refmask(VariantCallData(reference_lengths, 1))
    /\ warnings = 0
    /\ exc = NoExc
    /\ pc = "abundance"
    /\ n = 0
    /\ last = NoInput
    /\ summary = SummaryFrame
    /\ other = self

\* process() has returned, and is called again on the same VariantCaller,
\* with the second sample: a new VariantCallData, the abundance pass next.
ProcessAgain ==
    /\ pc \in {"done", "summarized"}
    /\ bamfile = SampleOne
    /\ bamfile' = SampleTwo
    /\ call_data' = build_refmask(VariantCallData(reference_lengths,
                                                  self.min_gap_size))
    /\ pc' = "abundance"
    /\ n' = 0
    /\ last' = NoInput
    /\ summary' = SummaryFrame
    /\ UNCHANGED <<self, warnings, exc, other>>

\* One _assess_read of the pileup pass of the other VariantCaller, on the
\* call data of its own invocation, of which only the discarded names are
\* kept here.
OtherAssessRead(entry) ==
    /\ LET w == [self |-> other,
                 call_data |-> build_refmask(
                                   VariantCallData(reference_lengths,
                                                   other.min_gap_size)),
                 warnings |-> 0, exc |-> NoExc]
       IN  other' = assess_read(w, entry.reference_name, entry.reference_pos,
                                entry.read).self
    /\ UNCHANGED <<self, call_data, warnings, exc, bamfile, pc, n, last,
                   summary>>

NextReuse ==
    \/ Next
    \/ ProcessAgain
    \/ \E entry \in Pileup(SampleOther) : OtherAssessRead(entry)

SpecReuse == InitReuse /\ [][NextReuse]_vars

(***************************************************************************)
(* Properties of the derived calls and gaps (under SpecStats).             *)
(***************************************************************************)
Called == pc \in {"find_gaps", "done"}

AlleleBits == {A, C, G, T, INS, DEL}

\* C1: after call_alleles with min_pileup_qual >= 0, at every position of
\* every scaffold each allele bit set in strong is also set in weak.
C1_StrongWithinWeak ==
    (Called /\ self.min_pileup_qual >= 0) =>
        \A s \in Scaffolds : \A i \in Positions(s) : \A a \in AlleleBits :
            LET sd == call_data.scaffolds_data[s]
            IN  HasBit(sd.strong[i], a) => HasBit(sd.weak[i], a)

\* A strong call beside a weaker one: some allele is called weakly only.
C1_Witness ==
    /\ Called /\ self.min_pileup_qual >= 0
    /\ \E s \in Scaffolds : \E i \in Positions(s) :
          LET sd == call_data.scaffolds_data[s]
          IN  sd.strong[i] # 0 /\ sd.weak[i] # sd.strong[i]

\* C2: after calculate_coverage and call_alleles, a position of high
\* coverage has strong = 0 and weak = 0, whatever evidence it holds.
C2_HighCoverageUncalled ==
    Called =>
        \A s \in Scaffolds : \A i \in Positions(s) :
            LET sd == call_data.scaffolds_data[s]
            IN  sd.high_coverage[i] => sd.strong[i] = 0 /\ sd.weak[i] = 0

\* A position of high coverage whose evidence would otherwise be called.
C2_Witness ==
    /\ Called
    /\ \E s \in Scaffolds : \E i \in Positions(s) :
          LET sd == call_data.scaffolds_data[s]
          IN  /\ sd.high_coverage[i]
              /\ weak_call(sd, i) # 0
              /\ sd.weak[i] = 0

\* The positions of a gap
GapPositions(gap) == gap.start..gap.end

C4_GapsDisjointSortedLong ==
    pc = "done" =>
        \A s \in Scaffolds :
            LET sd     == call_data.scaffolds_data[s]
                scaled == scale_min_gap_size(call_data.min_gap_size,
                                             sd.mean_coverage)
            IN  /\ \A g \in 1..Len(sd.gaps) :
                      /\ sd.gaps[g].length >= scaled
                      /\ sd.gaps[g].length =
                            Cardinality(GapPositions(sd.gaps[g]))
                /\ \A g, h \in 1..Len(sd.gaps) :
                      g < h =>
                          /\ sd.gaps[g].start < sd.gaps[h].start
                          /\ GapPositions(sd.gaps[g])
                                \cap GapPositions(sd.gaps[h]) = {}

\* Two gaps in one scaffold, one of them exactly as long as the scaled
\* minimum gap size.
C4_Witness ==
    /\ pc = "done"
    /\ \E s \in Scaffolds :
          LET sd == call_data.scaffolds_data[s]
          IN  /\ Len(sd.gaps) >= 2
              /\ \E g \in 1..Len(sd.gaps) :
                    sd.gaps[g].length =
                        scale_min_gap_size(call_data.min_gap_size,
                                           sd.mean_coverage)


(***************************************************************************)
(* Properties of the two passes of process() (under Spec).  A step of a    *)
(* pass is told by n' = n + 1, and last' is the input it consumed.         *)
(***************************************************************************)
AbundanceStep == pc = "abundance" /\ n' = n + 1

PileupStep == pc = "pileup" /\ n' = n + 1

EntryQual(e) ==
    e.read.alignment.query_qualities[e.read.query_position_or_next + 1]

EntryBase(e) ==
    IF e.read.is_del THEN DEL
    ELSE IF e.read.indel > 0 THEN INS
    ELSE LET c == e.read.alignment.query_sequence[
                      e.read.query_position_or_next + 1]
         IN  IF c = "A" THEN A ELSE IF c = "C" THEN C
             ELSE IF c = "G" THEN G ELSE IF c = "T" THEN T ELSE N

Mismatches(a) == IF "NM" \in a.tag_names THEN a.NM ELSE 0

WithinMismatches(a) ==
    self.max_num_mismatches > 0 => Mismatches(a) <= self.max_num_mismatches

\* The pairing, clipping and template length conditions on a record
WellAligned(a) ==
    /\ a.is_paired => a.is_proper_pair
    /\ a.query_alignment_length = a.query_length
    /\ a.is_paired => abs(a.template_length) >= a.query_length

\* The entry passes the whole-read filters, its read not discarded before
PassesReadFilters(e) ==
    /\ e.read.alignment.query_name \notin self.discarded_reads
    /\ WellAligned(e.read.alignment)
    /\ WithinMismatches(e.read.alignment)

\* The entry passes all filters
PassesAllFilters(e) ==
    /\ PassesReadFilters(e)
    /\ EntryQual(e) >= self.min_qual
    /\ EntryBase(e) # N

\* The step increments the bad count at the position of e, and changes
\* nothing else of the call data
OnlyBad(e) ==
    call_data' =
        [call_data EXCEPT
            !.scaffolds_data[e.reference_name].bad[e.reference_pos] = @ + 1]

\* C5: once a read name is in the discarded set, a later pileup entry of
\* that name increments the bad count at its position and changes no other
\* count or sum, whatever the other filters would say of it.
C5_DiscardedReadStaysBad ==
    [][(PileupStep /\ last'.read.alignment.query_name \in self.discarded_reads)
          => /\ OnlyBad(last')
             /\ self' = self
             /\ warnings' = warnings
             /\ exc' = NoExc]_vars

\* The second entry carries a discarded name and would pass every filter.
C5_Witness ==
    /\ pc = "pileup" /\ n = 2
    /\ last.read.alignment.query_name \in self.discarded_reads
    /\ WellAligned(last.read.alignment)
    /\ WithinMismatches(last.read.alignment)
    /\ EntryQual(last) >= self.min_qual
    /\ EntryBase(last) # N
    /\ LET sd == call_data.scaffolds_data[last.reference_name]
       IN  /\ sd.bad[last.reference_pos] >= 1
           /\ total_depth(sd, last.reference_pos) = 0

\* C6: an entry that passes the whole-read filters with a base quality
\* below min_qual increments the bad count at its position and leaves the
\* discarded set unchanged; the next entry of the same read, at another
\* position where its base quality is at least min_qual, is counted.
C6_LowQualityIsBadNotDiscarded ==
    [][/\ (PileupStep /\ PassesReadFilters(last')
                      /\ EntryQual(last') < self.min_qual)
            => OnlyBad(last') /\ self' = self
       /\ (/\ PileupStep
           /\ last.kind = "pileup"
           /\ PassesReadFilters(last)
           /\ EntryQual(last) < self.min_qual
           /\ last'.read.alignment = last.read.alignment
           /\ last'.reference_pos # last.reference_pos
           /\ EntryQual(last') >= self.min_qual
           /\ EntryBase(last') # N)
            => LET sd  == call_data.scaffolds_data[last'.reference_name]
                   sd2 == call_data'.scaffolds_data[last'.reference_name]
               IN  /\ sd2.bad = sd.bad
                   /\ total_depth(sd2, last'.reference_pos) =
                         total_depth(sd, last'.reference_pos) + 1]_vars

\* A read bad at its first base for its quality, counted at its second.
C6_Witness ==
    /\ pc = "pileup" /\ n = 2
    /\ self.discarded_reads = {}
    /\ last.read.query_position_or_next = 1
    /\ last.read.alignment.query_qualities[1] < self.min_qual
    /\ EntryQual(last) >= self.min_qual
    /\ LET sd == call_data.scaffolds_data[last.reference_name]
       IN  /\ sd.bad[last.read.alignment.reference_start] = 1
           /\ sd.bad[last.reference_pos] = 0
           /\ depth(sd, last.reference_pos) = 1

\* The record increments the read count of its scaffold and the uniquely
\* mapped reads, and changes nothing else of the call data
Accepted(a) ==
    call_data' =
        [call_data EXCEPT
            !.uniquely_mapped_reads = @ + 1,
            !.scaffolds_data[a.reference_name].read_count = @ + 1]

\* mapping quality >= 3, no XA tag, and well aligned
UniquelyMapped(a) ==
    /\ a.mapping_quality >= 3
    /\ "XA" \notin a.tag_names
    /\ WellAligned(a)

\* C7 (as stated): the abundance pass accepts a record exactly when its
\* mapping quality is >= 3, it has no XA tag, it is properly paired if
\* paired, unclipped, and its template is not shorter than the read.
C7_AbundanceAcceptance ==
    [][AbundanceStep =>
          IF UniquelyMapped(last'.alignment)
          THEN Accepted(last'.alignment)
          ELSE call_data' = call_data]_vars

\* C7 (amended): ... and, when max_num_mismatches > 0, its mismatch count
\* (NM tag, 0 without one) is at most max_num_mismatches.
C7_AbundanceAcceptanceMismatches ==
    [][AbundanceStep =>
          IF UniquelyMapped(last'.alignment)
             /\ WithinMismatches(last'.alignment)
          THEN Accepted(last'.alignment)
          ELSE call_data' = call_data]_vars

\* A record rejected for its mismatches alone.
C7_Witness ==
    /\ pc = "abundance" /\ n = 1
    /\ UniquelyMapped(last.alignment)
    /\ ~WithinMismatches(last.alignment)
    /\ call_data.uniquely_mapped_reads = 0
    /\ \A s \in Scaffolds : call_data.scaffolds_data[s].read_count = 0

\* The hits of the XA tag of a record that qualify as alternative locations:
\* no S, H, D or I in the CIGAR, and no more mismatches than the record
QualifyingHits(a) ==
    IF "XA" \in a.tag_names
    THEN {k \in 1..Len(a.XA) :
            /\ a.XA[k] # <<>>
            /\ \A c \in 1..Len(a.XA[k][3]) :
                  a.XA[k][3][c] \notin {"S", "H", "D", "I"}
            /\ a.XA[k][4] <= a.NM}
    ELSE {}

\* <<scaffold, position, strand differs>> of the entry at its k-th hit
HitLocation(e, k) ==
    alternative_location(e.read.alignment, e.reference_pos,
                         e.read.alignment.XA[k])

\* The qualifying hits that put the entry at position i of scaffold s
HitsAt(e, s, i) ==
    {k \in QualifyingHits(e.read.alignment) :
        HitLocation(e, k)[1] = s /\ HitLocation(e, k)[2] = i}

\* The qualifying hits that put the entry outside their scaffold
HitsOutside(e) ==
    {k \in QualifyingHits(e.read.alignment) :
        HitLocation(e, k)[2] >= reference_lengths[HitLocation(e, k)[1]]}

\* 1 at the position of the entry, 0 elsewhere
AtPrimary(e, s, i) ==
    IF s = e.reference_name /\ i = e.reference_pos THEN 1 ELSE 0

\* The entry is one of low mapping quality
LowMapq(e) == e.read.alignment.mapping_quality < self.min_mapping_quality

\* The entry is also scored at its alternative locations
Replicated(e) == e.read.alignment.mapping_quality <= 3

\* The allele the entry counts for at its k-th hit
HitAllele(e, k) ==
    LET base == EntryBase(e)
    IN  IF ~HitLocation(e, k)[3] THEN base
        ELSE IF base = A THEN T ELSE IF base = T THEN A
        ELSE IF base = C THEN G ELSE IF base = G THEN C
        ELSE base

\* The column of an allele in the counts
Column(allele) ==
    CHOOSE ix \in AlleleIx : ALLELE_MASKS[ix + 1] = allele

\* The number of times the step is to count the entry in column ix at
\* position i of scaffold s
GoodUpdates(e, s, i, ix) ==
    (IF Column(EntryBase(e)) = ix THEN AtPrimary(e, s, i) ELSE 0)
    + (IF Replicated(e)
       THEN Cardinality({k \in HitsAt(e, s, i) :
                            Column(HitAllele(e, k)) = ix})
       ELSE 0)

\* The low mapping quality counts grow by the updates of the entry e
LowmqCounted(e) ==
    \A s \in Scaffolds : \A i \in Positions(s) :
        call_data'.scaffolds_data[s].lowmq_count[i] =
            call_data.scaffolds_data[s].lowmq_count[i]
            + AtPrimary(e, s, i) + Cardinality(HitsAt(e, s, i))

\* The allele counts, quality sums and mq_sum grow by the updates of e
GoodCounted(e) ==
    \A s \in Scaffolds : \A i \in Positions(s) :
        LET sd  == call_data.scaffolds_data[s]
            sd2 == call_data'.scaffolds_data[s]
            mq  == e.read.alignment.mapping_quality
        IN  /\ \A ix \in AlleleIx :
                  /\ sd2.alleles[i][0][ix] =
                        sd.alleles[i][0][ix] + GoodUpdates(e, s, i, ix)
                  /\ sd2.alleles[i][1][ix] =
                        sd.alleles[i][1][ix]
                        + EntryQual(e) * GoodUpdates(e, s, i, ix)
            /\ sd2.mq_sum[i] =
                  sd.mq_sum[i]
                  + mq * (AtPrimary(e, s, i)
                          + IF Replicated(e)
                            THEN Cardinality(HitsAt(e, s, i)) ELSE 0)

\* No allele count, quality sum or mq_sum changes
EvidenceUnchanged ==
    \A s \in Scaffolds :
        /\ call_data'.scaffolds_data[s].alleles =
              call_data.scaffolds_data[s].alleles
        /\ call_data'.scaffolds_data[s].mq_sum =
              call_data.scaffolds_data[s].mq_sum

\* No low mapping quality count changes
LowmqUnchanged ==
    \A s \in Scaffolds :
        call_data'.scaffolds_data[s].lowmq_count =
            call_data.scaffolds_data[s].lowmq_count

\* C8: an update at a position outside its scaffold, made for an entry of
\* low mapping quality or for a counted one, is dropped without raising:
\* a warning is reported for it, the arrays take the other updates of the
\* entry only, and the pileup loop goes on.
C8_OutOfRangeUpdateDropped ==
    [][(/\ PileupStep
        /\ PassesAllFilters(last')
        /\ LowMapq(last') \/ Replicated(last')
        /\ HitsOutside(last') # {})
          => /\ exc' = NoExc
             /\ pc' = "pileup"
             /\ warnings' = warnings + Cardinality(HitsOutside(last'))
             /\ IF LowMapq(last')
                THEN LowmqCounted(last') /\ EvidenceUnchanged
                ELSE GoodCounted(last') /\ LowmqUnchanged]_vars

\* C9: an entry that passes all filters with a mapping quality below
\* min_mapping_quality increments lowmq_count at its position and at
\* exactly the qualifying alternative locations of its XA tag, and changes
\* no allele count, quality sum or mq_sum.
C9_LowMapqCounted ==
    [][(PileupStep /\ PassesAllFilters(last') /\ LowMapq(last'))
          => LowmqCounted(last') /\ EvidenceUnchanged]_vars

\* An entry of low mapping quality whose XA tag has a hit that qualifies and
\* was counted, and a hit that does not qualify.
C9_Witness ==
    /\ pc = "pileup" /\ n = 1
    /\ PassesAllFilters(last) /\ LowMapq(last)
    /\ \E k \in QualifyingHits(last.read.alignment) :
          LET loc == HitLocation(last, k)
          IN  /\ loc[2] < reference_lengths[loc[1]]
              /\ <<loc[1], loc[2]>> #
                    <<last.reference_name, last.reference_pos>>
              /\ call_data.scaffolds_data[loc[1]].lowmq_count[loc[2]] = 1
    /\ \E k \in 1..Len(last.read.alignment.XA) :
          /\ last.read.alignment.XA[k] # <<>>
          /\ k \notin QualifyingHits(last.read.alignment)

\* C10: an entry that passes all filters with a mapping quality of at least
\* min_mapping_quality adds one to the count of its allele, its base quality
\* to the quality sum and its mapping quality to mq_sum at its position; if
\* its mapping quality is <= 3, it adds the same at every qualifying
\* alternative location, for the reverse complement of the allele exactly
\* when the strand of the hit differs from that of the record.
C10_GoodReadCounted ==
    [][(PileupStep /\ PassesAllFilters(last') /\ ~LowMapq(last'))
          => GoodCounted(last') /\ LowmqUnchanged]_vars

(***************************************************************************)
(* Order of the post-processing passes (under Spec).                       *)
(***************************************************************************)
\* What calculate_coverage, call_alleles and find_gaps have left in the
\* data of a scaffold
HasCoverage(sd) == sd.coverage # None /\ sd.high_coverage # None

HasCalls(sd) == sd.strong # None /\ sd.weak # None

HasGaps(sd) == sd.lowmq # None

\* C11: the post-processing passes run after both read passes and in the
\* order coverage, alleles, gaps: while reads are processed no scaffold has
\* derived data; when call_alleles starts every scaffold has its coverage
\* and high_coverage and none has calls; when find_gaps starts every
\* scaffold has its calls and none has had its gaps computed.
C11_PostProcessingInOrder ==
    \A s \in Scaffolds :
        LET sd == call_data.scaffolds_data[s]
        IN  /\ pc \in {"abundance", "pileup", "raised"} =>
                  ~HasCoverage(sd) /\ ~HasCalls(sd) /\ ~HasGaps(sd)
                  /\ sd.gaps = <<>>
            /\ pc = "call_alleles" =>
                  HasCoverage(sd) /\ ~HasCalls(sd) /\ ~HasGaps(sd)
            /\ pc = "find_gaps" =>
                  HasCoverage(sd) /\ HasCalls(sd) /\ ~HasGaps(sd)
            /\ pc = "done" => HasCoverage(sd) /\ HasCalls(sd) /\ HasGaps(sd)

\* process() has returned after a pileup pass that led to a strong call.
C11_Witness ==
    /\ pc = "done" /\ n = MaxPileup
    /\ \A s \in Scaffolds :
          LET sd == call_data.scaffolds_data[s]
          IN  HasCoverage(sd) /\ HasCalls(sd) /\ HasGaps(sd)
    /\ \E s \in Scaffolds : \E i \in Positions(s) :
          call_data.scaffolds_data[s].strong[i] # 0

(***************************************************************************)
(* Properties of summarize().                                              *)
(***************************************************************************)
\* The generator has ended: by its last record, or by an exception
SummaryEnded == pc \in {"summarized", "summarize_raised"}

\* C12: summarize() yields one record per scaffold, in the order of the
\* reference, then one record named TOTAL, and nothing after it: what it
\* has yielded is always a prefix of that list, and all of it once the
\* generator has ended.
C12_SummaryRecordsInOrder ==
    /\ Len(summary.yielded) <= Len(ScaffoldNames) + 1
    /\ \A k \in 1..Len(summary.yielded) :
          summary.yielded[k].name =
              IF k <= Len(ScaffoldNames) THEN ScaffoldNames[k] ELSE "TOTAL"
    /\ SummaryEnded => Len(summary.yielded) = Len(ScaffoldNames) + 1

(***************************************************************************)
(* Thresholds of the calls and the coverage (under SpecStats).             *)
(***************************************************************************)
\* The quality sum of the allele of column ix at position i
AlleleQual(sd, i, ix) == sd.alleles[i][1][ix]

\* AlleleQual / qual_total > min_qual_frac, where there is quality evidence
AboveQualFrac(sd, i, ix) ==
    AlleleQual(sd, i, ix) * self.min_qual_frac[2]
        > self.min_qual_frac[1] * qual_total(sd, i)

Analyzed == pc \in {"call_alleles", "find_gaps", "done"}

\* The sum of the allele counts at position i
CountSum(sd, i) ==
    sd.alleles[i][0][0] + sd.alleles[i][0][1] + sd.alleles[i][0][2]
    + sd.alleles[i][0][3] + sd.alleles[i][0][4] + sd.alleles[i][0][5]

\* The sum of f over the set S of positions
RECURSIVE SumOver(_, _)
SumOver(f, S) ==
    IF S = {} THEN 0
    ELSE LET i == CHOOSE j \in S : TRUE IN f[i] + SumOver(f, S \ {i})

\* The coverage of all positions of all scaffolds, summed
AllCoverage ==
    SumOver(call_data.scaffolds_data["s1"].coverage, Positions("s1"))
    + SumOver(call_data.scaffolds_data["s2"].coverage, Positions("s2"))

C15_LinearCutoff ==
    Analyzed =>
        \A s \in Scaffolds :
            LET sd == call_data.scaffolds_data[s]
            IN  sd.median_coverage >= 2 * 50 =>
                    /\ 4 * sd.coverage_cutoff >= 3 * sd.median_coverage + 60
                    /\ 4 * (sd.coverage_cutoff - 1)
                          < 3 * sd.median_coverage + 60
                    /\ sd.median_coverage = 2 * 100 =>
                          sd.coverage_cutoff = 165
                    /\ \A i \in Positions(s) :
                          sd.high_coverage[i]
                          <=> sd.coverage[i] > sd.coverage_cutoff

\* Median coverage 100: the cutoff is 165, a position of coverage 166 is of
\* high coverage and one of coverage 100 is not.
C15_Witness ==
    /\ pc = "call_alleles"
    /\ LET sd == call_data.scaffolds_data["s1"]
       IN  /\ sd.median_coverage = 2 * 100
           /\ sd.coverage_cutoff = 165
           /\ \E i \in Positions("s1") :
                 sd.coverage[i] = 166 /\ sd.high_coverage[i]
           /\ \E i \in Positions("s1") :
                 sd.coverage[i] = 100 /\ ~sd.high_coverage[i]

\* The allele bits set in the mask x
BitsOf(x) == {a \in AlleleBits : HasBit(x, a)}

\* The per-scaffold records yielded so far, and the sum of a field of them
ScaffoldRecords ==
    IF Len(summary.yielded) <= Len(ScaffoldNames) THEN summary.yielded
    ELSE SubSeq(summary.yielded, 1, Len(ScaffoldNames))

RECURSIVE FieldSum(_, _)
FieldSum(records, field) ==
    IF records = <<>> THEN 0
    ELSE Head(records)[field] + FieldSum(Tail(records), field)

SummedFields ==
    {"callable", "confirmed", "snps", "multi", "pureSnps", "gapCount",
     "gapLength"}

\* C16: in the record of a scaffold, callable counts the positions with a
\* strong call, confirmed those whose strong call shares a bit with
\* refmask, snps those whose strong call has a bit outside refmask, multi
\* those whose strong call has more than one bit, and pureSnps is snps -
\* multi; each of these and gapCount and gapLength in the TOTAL record is
\* the sum of the per-scaffold values.
C16_SummaryCounts ==
    /\ \A k \in 1..Len(ScaffoldRecords) :
          LET r  == summary.yielded[k]
              sd == call_data.scaffolds_data[r.name]
              P  == Positions(r.name)
          IN  /\ r.callable = Cardinality({i \in P : sd.strong[i] # 0})
              /\ r.confirmed =
                    Cardinality({i \in P :
                        BitsOf(sd.strong[i]) \cap BitsOf(sd.refmask[i]) # {}})
              /\ r.snps =
                    Cardinality({i \in P :
                        BitsOf(sd.strong[i]) \ BitsOf(sd.refmask[i]) # {}})
              /\ r.multi =
                    Cardinality({i \in P :
                        Cardinality(BitsOf(sd.strong[i])) > 1})
              /\ r.pureSnps = r.snps - r.multi
    /\ Len(summary.yielded) = Len(ScaffoldNames) + 1 =>
          LET total == summary.yielded[Len(ScaffoldNames) + 1]
          IN  \A field \in SummedFields :
                  total[field] = FieldSum(ScaffoldRecords, field)

\* The summary is complete; one scaffold has a confirmed position that is
\* also a SNP with several alleles, and both have callable positions and
\* one has a gap.
C16_Witness ==
    /\ pc = "summarized"
    /\ Len(summary.yielded) = Len(ScaffoldNames) + 1
    /\ summary.yielded[1].confirmed >= 1
    /\ summary.yielded[1].multi >= 1
    /\ summary.yielded[1].snps > summary.yielded[1].multi
    /\ summary.yielded[2].callable >= 1
    /\ summary.yielded[3].callable
          = summary.yielded[1].callable + summary.yielded[2].callable
    /\ summary.yielded[3].gapLength >= 1

\* The uncovered positions of a scaffold: no weak call, and not dominated
\* by reads of low mapping quality
Uncovered(sd) ==
    {i \in 0..(sd.length - 1) :
        /\ sd.weak[i] = 0
        /\ ~(sd.lowmq_count[i] > 1 /\ sd.lowmq_count[i] > CountSum(sd, i))}

\* The positions of S form one run
OneRun(S) ==
    /\ S # {}
    /\ \A i, j \in S : \A k \in i..j : k \in S

BadUnchanged(e) ==
    call_data'.scaffolds_data[e.reference_name].bad =
        call_data.scaffolds_data[e.reference_name].bad

\* C18: the set of discarded read names is empty when the pileup pass of an
\* invocation of process() starts, whatever an earlier invocation on the
\* same VariantCaller left in it; a pileup entry adds no name to it but its
\* own, so that the first entry of a pass is rejected only for what the
\* filters say of it; and the names another VariantCaller discards change
\* nothing of this one.
C18_MemoScopedToInvocation ==
    [][/\ (pc = "abundance" /\ pc' = "pileup") => self'.discarded_reads = {}
       /\ PileupStep =>
            self'.discarded_reads \subseteq
                self.discarded_reads \cup {last'.read.alignment.query_name}
       /\ (/\ PileupStep
           /\ n = 0
           /\ WellAligned(last'.read.alignment)
           /\ WithinMismatches(last'.read.alignment)
           /\ EntryQual(last') >= self.min_qual
           /\ EntryBase(last') # N) => BadUnchanged(last')
       /\ other' # other => UNCHANGED <<self, call_data>>]_vars

\* The second sample is in its pileup pass; the first entry, of read r1,
\* which the other VariantCaller has discarded, was counted.
C18_Witness ==
    /\ bamfile = SampleTwo
    /\ pc = "pileup"
    /\ n = 1
    /\ last.read.alignment.query_name = "r1"
    /\ "r1" \in other.discarded_reads
    /\ self.discarded_reads = {}
    /\ depth(call_data.scaffolds_data[last.reference_name],
             last.reference_pos) = 1
    /\ call_data.scaffolds_data[last.reference_name].bad[last.reference_pos]
           = 0

(***************************************************************************)
(* Base characters that name no allele (under Spec).                       *)
(***************************************************************************)
\* The base character the entry reads from its alignment
EntryChar(e) ==
    e.read.alignment.query_sequence[e.read.query_position_or_next + 1]

\* Neither a deletion nor followed by an insertion, and the base character
\* is none of A, C, G, T
UnrecognizedBase(e) ==
    /\ ~e.read.is_del
    /\ e.read.indel <= 0
    /\ EntryChar(e) \notin {"A", "C", "G", "T"}

\* C19: a pileup entry that passes the read filters, is neither a deletion
\* nor followed by an insertion, and whose base character is none of A, C,
\* G, T increments the bad count at its position and changes no allele or
\* low mapping quality count, is not added to the discarded reads, and
\* raises no exception.
C19_UnrecognizedBaseIsBad ==
    [][(PileupStep /\ PassesReadFilters(last') /\ UnrecognizedBase(last'))
          => /\ OnlyBad(last')
             /\ self' = self
             /\ warnings' = warnings
             /\ exc' = NoExc]_vars

\* The entry just consumed has a base character that names no allele, of
\* sufficient quality, in a read that passes the filters: it is counted as
\* bad, and nothing else is counted at its position.
C19_Witness ==
    /\ pc = "pileup"
    /\ n = 1
    /\ UnrecognizedBase(last)
    /\ EntryChar(last) = "a"
    /\ EntryQual(last) >= self.min_qual
    /\ WellAligned(last.read.alignment)
    /\ WithinMismatches(last.read.alignment)
    /\ self.discarded_reads = {}
    /\ exc = NoExc
    /\ LET sd == call_data.scaffolds_data[last.reference_name]
       IN  /\ sd.bad[last.reference_pos] = 1
           /\ depth(sd, last.reference_pos) = 0
           /\ sd.lowmq_count[last.reference_pos] = 0

(***************************************************************************)
(* The accessors (under SpecAccessors).                                    *)
(***************************************************************************)
\* The position ref_fraction was last called on has no quality evidence
CalledWithoutEvidence ==
    /\ last.kind = "ref_fraction"
    /\ qual_total(call_data.scaffolds_data[last.scaffold], last.loc) = 0

\* C20: ref_fraction(pos) returns 0 whenever qual_total(pos) is 0: it does
\* not raise, and what it returns is a number, and zero.
C20_RefFractionZeroWithoutEvidence ==
    CalledWithoutEvidence =>
        /\ last.returned.exc = NoExc
        /\ last.returned.value # NaN
        /\ last.returned.value[1] = 0

(***************************************************************************)
(* The methods of Allele (under SpecAllele).                               *)
(***************************************************************************)
\* C21: for every combination x of allele bits, rc(x) swaps A with T and C
\* with G when x is one of these four single bits, and is x otherwise
\* (empty, several bits, INS, DEL); and rc(rc(x)) = x.
C21_ReverseComplement ==
    /\ last.kind = "rc" =>
          /\ last.value = A => last.returned = T
          /\ last.value = T => last.returned = A
          /\ last.value = C => last.returned = G
          /\ last.value = G => last.returned = C
          /\ last.value \notin {A, C, G, T} => last.returned = last.value
    /\ last.kind = "rc_rc" => last.returned = last.value

\* rc() was applied twice to G
C21_Witness ==
    /\ last.kind = "rc_rc"
    /\ last.value = G
    /\ last.returned = G

\* The names of the allele bits, in the order A, C, G, T, INS, DEL; the
\* k-th has the value 2^(k-1)
BitNames == <<"A", "C", "G", "T", "INS", "DEL">>

\* The set bits of x from the k-th on, as values, in that order
RECURSIVE SetBitsFrom(_, _, _)
SetBitsFrom(x, k, bit) ==
    IF k > Len(BitNames) THEN <<>>
    ELSE (IF (x \div bit) % 2 = 1 THEN <<bit>> ELSE <<>>)
         \o SetBitsFrom(x, k + 1, 2 * bit)

\* The names of the values in bits from the i-th on, joined by commas
RECURSIVE CommaNames(_, _)
CommaNames(bits, i) ==
    IF i > Len(bits) THEN ""
    ELSE LET name == BitNames[CHOOSE k \in 1..Len(BitNames) :
                                  2 ^ (k - 1) = bits[i]]
         IN  IF i = Len(bits) THEN name
             ELSE name \o "," \o CommaNames(bits, i + 1)

\* C22: iterating a combination x of allele bits yields the set bits of x,
\* each once, in the order A, C, G, T, INS, DEL; and formatting x yields
\* the names of those bits joined by commas in that order, the empty
\* string for the empty combination.
C22_IterationAndFormat ==
    /\ last.kind = "iter" => last.returned = SetBitsFrom(last.value, 1, 1)
    /\ last.kind = "str" =>
          /\ last.returned = CommaNames(SetBitsFrom(last.value, 1, 1), 1)
          /\ last.value = 0 => last.returned = ""
          /\ last.value = A + T => last.returned = "A,T"

\* A|T was formatted as "A,T"
C22_Witness ==
    /\ last.kind = "str"
    /\ last.value = A + T
    /\ last.returned = "A,T"

(***************************************************************************)
(* One count per pileup entry (under Spec).                                *)
(***************************************************************************)
\* The counters of position i of scaffold s: the six allele counts, the
\* bad count and the count of reads of low mapping quality
Counters(cd, s, i) ==
    LET sd == cd.scaffolds_data[s]
    IN  [k \in 0..7 |-> IF k = 6 THEN sd.bad[i]
                        ELSE IF k = 7 THEN sd.lowmq_count[i]
                        ELSE sd.alleles[i][0][k]]

\* bad + lowmq_count + depth at position i of scaffold s
Seen(cd, s, i) == SumTo(Counters(cd, s, i), 8)

\* The step adds one to exactly one counter at the position of e
OneIncrement(e) ==
    LET before == Counters(call_data, e.reference_name, e.reference_pos)
        after  == Counters(call_data', e.reference_name, e.reference_pos)
    IN  \E k \in 0..7 :
           /\ after[k] = before[k] + 1
           /\ \A j \in 0..7 \ {k} : after[j] = before[j]

\* C23 as stated: every call of _assess_read adds one to exactly one of
\* bad, lowmq_count or a single allele count at the position of its entry.
C23_OneIncrementPerCall ==
    [][PileupStep => OneIncrement(last')]_vars

\* C23, amended: an entry none of whose qualifying alternative locations is
\* its own position adds one to exactly one of bad, lowmq_count or a single
\* allele count at its position; an entry without qualifying alternative
\* locations changes the counters of no other position, so that over such
\* entries bad + lowmq_count + depth of a position, which is 0 when the
\* pileup pass starts, is the number of entries seen at it.
C23_OneIncrementAtOwnPosition ==
    /\ []((pc = "pileup" /\ n = 0) =>
             \A s \in Scaffolds : \A i \in Positions(s) :
                 Seen(call_data, s, i) = 0)
    /\ [][/\ (/\ PileupStep
              /\ HitsAt(last', last'.reference_name, last'.reference_pos) = {})
             => OneIncrement(last')
          /\ (PileupStep /\ QualifyingHits(last'.read.alignment) = {})
             => \A s \in Scaffolds : \A i \in Positions(s) :
                   Seen(call_data', s, i) =
                       Seen(call_data, s, i) + AtPrimary(last', s, i)]_vars

\* Two entries at one position, one counted as bad and one for its allele
C23_Witness ==
    /\ pc = "pileup"
    /\ n = 2
    /\ QualifyingHits(last.read.alignment) = {}
    /\ LET sd == call_data.scaffolds_data[last.reference_name]
       IN  /\ sd.bad[last.reference_pos] = 1
           /\ depth(sd, last.reference_pos) = 1
           /\ Seen(call_data, last.reference_name, last.reference_pos) = 2

(***************************************************************************)
(* Abundance (under Spec).                                                 *)
(***************************************************************************)
\* The sum of read_count over the scaffolds from the k-th on
RECURSIVE ReadCountFrom(_)
ReadCountFrom(k) ==
    IF k > Len(ScaffoldNames) THEN 0
    ELSE call_data.scaffolds_data[ScaffoldNames[k]].read_count
         + ReadCountFrom(k + 1)

\* The sum of the numerators of the abundance of the records from the k-th
RECURSIVE AbundanceFrom(_, _)
AbundanceFrom(records, k) ==
    IF k > Len(records) THEN 0
    ELSE records[k].abundance[1] + AbundanceFrom(records, k + 1)

Defective(e) ==
    ~(WellAligned(e.read.alignment) /\ WithinMismatches(e.read.alignment))

\* C25: the set of discarded reads only grows during a pileup pass: an
\* entry adds the name of its read when that name is not in the set and its
\* alignment has a whole-read defect, and the set changes in no other way.
\* So a sound entry (no whole-read defect, base of sufficient quality naming
\* an allele) is counted as evidence while no defective alignment of its
\* name has been seen, and as bad afterwards.
C25_RejectionFollowsPileupOrder ==
    [][PileupStep =>
          LET name == last'.read.alignment.query_name
          IN  /\ self.discarded_reads \subseteq self'.discarded_reads
              /\ self'.discarded_reads =
                    self.discarded_reads \cup
                        (IF Defective(last') THEN {name} ELSE {})
              /\ (/\ ~Defective(last')
                  /\ EntryQual(last') >= self.min_qual
                  /\ EntryBase(last') # N) =>
                    IF name \in self.discarded_reads
                    THEN OnlyBad(last')
                    ELSE /\ BadUnchanged(last')
                         /\ Seen(call_data', last'.reference_name,
                                 last'.reference_pos) >
                                Seen(call_data, last'.reference_name,
                                     last'.reference_pos)]_vars

\* The second entry of the pass is a sound one, of a read discarded for the
\* defect of the alignment seen first: it was counted as bad.
C25_Witness ==
    /\ pc = "pileup"
    /\ n = 2
    /\ ~Defective(last)
    /\ EntryQual(last) >= self.min_qual
    /\ EntryBase(last) # N
    /\ self.discarded_reads = {last.read.alignment.query_name}
    /\ LET sd == call_data.scaffolds_data[last.reference_name]
       IN  /\ sd.bad[last.reference_pos] >= 1
           /\ Seen(call_data, last.reference_name, last.reference_pos) =
                 sd.bad[last.reference_pos]

(***************************************************************************)
(* Replication at alternative locations (under Spec).                      *)
(***************************************************************************)
\* The allele counts, quality sums and mq_sum of position i of scaffold s
\* are left as they are
EvidenceUnchangedAt(s, i) ==
    /\ call_data'.scaffolds_data[s].alleles[i] =
          call_data.scaffolds_data[s].alleles[i]
    /\ call_data'.scaffolds_data[s].mq_sum[i] =
          call_data.scaffolds_data[s].mq_sum[i]

\* C26: with min_mapping_quality > 3 no good read is replicated at its
\* alternative locations: a pileup entry changes allele counts, quality
\* sums and mq_sum at its own position only.
C26_NoReplicationAboveThree ==
    [][(PileupStep /\ self.min_mapping_quality > 3) =>
          \A s \in Scaffolds : \A i \in Positions(s) :
              AtPrimary(last', s, i) = 0 => EvidenceUnchangedAt(s, i)]_vars

\* With min_mapping_quality = 5, a good read with a qualifying alternative
\* location within its scaffold was counted at its own position, and not
\* at the alternative one.
C26_Witness ==
    /\ pc = "pileup"
    /\ n = 1
    /\ self.min_mapping_quality = 5
    /\ PassesAllFilters(last)
    /\ ~LowMapq(last)
    /\ depth(call_data.scaffolds_data[last.reference_name],
             last.reference_pos) = 1
    /\ \E k \in QualifyingHits(last.read.alignment) :
          LET loc == HitLocation(last, k)
          IN  /\ loc[2] >= 0
              /\ loc[2] < reference_lengths[loc[1]]
              /\ <<loc[1], loc[2]>> #
                    <<last.reference_name, last.reference_pos>>
              /\ depth(call_data.scaffolds_data[loc[1]], loc[2]) = 0

(***************************************************************************)
(* Alternative locations (under SpecLocations).                            *)
(***************************************************************************)
\* The coordinate of position loc of the read of last at its k-th hit
CoordAt(loc, k) == last.returned[loc][k][2]

\* C27: for an alignment without indels of n bases and a hit with 1-based
\* anchor p, _alternative_locations maps each pileup position of the
\* alignment to a coordinate in p-1 .. p-1+n-1; the map is one-to-one, hence
\* onto, and it preserves the order of the positions when the hit is on the
\* strand of the alignment, and reverses it when it is on the other strand.
C27_AlternativeLocationsBijective ==
    last.kind = "alternative_locations" =>
        LET read == last.read
            len  == read.reference_end - read.reference_start
            locs == read.reference_start..(read.reference_end - 1)
        IN  \A k \in 1..Len(read.XA) :
               LET p    == abs(read.XA[k][2])
                   same == (read.XA[k][2] < 0) = read.is_reverse
               IN  /\ \A loc \in locs :
                         /\ Len(last.returned[loc]) = Len(read.XA)
                         /\ CoordAt(loc, k) \in (p - 1)..(p - 1 + len - 1)
                         /\ last.returned[loc][k][3] = ~same
                   /\ {CoordAt(loc, k) : loc \in locs} =
                         (p - 1)..(p - 1 + len - 1)
                   /\ \A l1, l2 \in locs :
                         l1 < l2 =>
                            IF same THEN CoordAt(l1, k) < CoordAt(l2, k)
                            ELSE CoordAt(l1, k) > CoordAt(l2, k)

\* A reverse read of three bases with a hit on its own strand and a hit on
\* the other strand
C27_Witness ==
    /\ last.kind = "alternative_locations"
    /\ last.read.is_reverse
    /\ last.read.query_length = 3
    /\ last.read.reference_start = 1
    /\ last.read.XA[1][2] = -2
    /\ last.read.XA[2][2] = 3
    /\ CoordAt(1, 1) = 1 /\ CoordAt(3, 1) = 3
    /\ CoordAt(1, 2) = 4 /\ CoordAt(3, 2) = 2

(***************************************************************************)
(* Counts and quality sums (under Spec).                                   *)
(***************************************************************************)
\* C28: with min_qual >= 1, at every position an allele has a count above 0
\* exactly when it has a quality sum above 0; so once call_alleles has run,
\* a position not marked high coverage has a weak call exactly when its
\* depth is above 0.
C28_CountsMatchQualities ==
    self.min_qual >= 1 =>
        \A s \in Scaffolds :
            LET sd == call_data.scaffolds_data[s]
            IN  \A i \in Positions(s) :
                   /\ \A ix \in AlleleIx :
                         sd.alleles[i][0][ix] > 0 <=> sd.alleles[i][1][ix] > 0
                   /\ (Called /\ ~sd.high_coverage[i]) =>
                         (sd.weak[i] # 0 <=> depth(sd, i) > 0)

\* The alleles are called: s1 has a position with a read counted and a weak
\* call, and a position without either.
C28_Witness ==
    /\ pc = "done"
    /\ self.min_qual >= 1
    /\ LET sd == call_data.scaffolds_data["s1"]
       IN  /\ \E i \in Positions("s1") :
                 /\ ~sd.high_coverage[i]
                 /\ depth(sd, i) > 0
                 /\ sd.weak[i] # 0
           /\ \E i \in Positions("s1") :
                 /\ ~sd.high_coverage[i]
                 /\ depth(sd, i) = 0
                 /\ sd.weak[i] = 0

(***************************************************************************)
(* SNP counts of the summary (under SpecStats).                            *)
(***************************************************************************)
\* C29: in every record of summarize() multi <= snps, pureSnps = snps -
\* multi is not negative, and callable <= confirmed + snps: a position with
\* several alleles is a SNP, since refmask has at most one bit, and a
\* callable position is confirmed, a SNP, or both.
C29_SnpCountsOrdered ==
    /\ \A s \in Scaffolds : \A i \in Positions(s) :
          call_data.scaffolds_data[s].refmask[i] \in {N, A, C, G, T}
    /\ \A k \in 1..Len(summary.yielded) :
          LET r == summary.yielded[k]
          IN  /\ r.multi <= r.snps
              /\ r.pureSnps = r.snps - r.multi
              /\ r.pureSnps >= 0
              /\ r.callable <= r.confirmed + r.snps

\* The record of a scaffold with a position of several alleles, and with a
\* position counted both as confirmed and as SNP
C29_Witness ==
    /\ Len(summary.yielded) >= 1
    /\ LET r == summary.yielded[1]
       IN  /\ r.multi >= 1
           /\ r.snps > r.multi
           /\ r.callable < r.confirmed + r.snps

(***************************************************************************)
(* Shared gaps of two samples (under SpecCompare).                         *)
(***************************************************************************)
\* C30: compare_gaps returns AsharedGaps <= Alength and BsharedGaps <=
\* Blength: the shared gap length attributed to a sample is at most the
\* total gap length of that sample.
C30_SharedGapsWithinOwn ==
    (last.kind = "compare_gaps" /\ last.returned.exc = NoExc) =>
        /\ last.returned.value.AsharedGaps <= last.returned.value.Alength
        /\ last.returned.value.BsharedGaps <= last.returned.value.Blength

====
